---- MODULE Spec2Model ----
(***************************************************************************)
(* A model of the LLM scoring pipeline of the grading backend:             *)
(*   backend/app/services/scoring.py        score_criteria,                *)
(*                                          score_criteria_parallel,       *)
(*                                          performance_band               *)
(*   backend/app/services/rubric_parser.py  parse_rubric,                  *)
(*                                          _resolve_criteria_payload      *)
(*                                                                         *)
(* Numbers.  Python floats are modelled as exact integers counted in       *)
(* thousandths (5.0 is 5000, 1.006 is 1006).  round(x, 2) is Round2, which *)
(* rounds to a multiple of 10.  The inputs below never produce a value     *)
(* whose thousandths digit is 5, so no rounding tie is ever decided and    *)
(* the exact arithmetic agrees with the binary floating point of the code. *)
(*                                                                         *)
(* Text.  A string is a sequence of tokens (a blank is the token " "), so   *)
(* that strip() is computed and not assumed.  A JSON / Python value is a   *)
(* record with a tag t: none, num, str, list, dict.                        *)
(***************************************************************************)
EXTENDS Integers, Sequences, FiniteSets, TLC

VARIABLES
    criteria,           \* argument: the list of criterion dicts
    transcript_text,    \* argument: the transcript
    batch_size,         \* argument of score_criteria_parallel
    rubric_payload,     \* local: the normalised criteria
    pc,                 \* position of the scoring call
    i,                  \* the loop variable (offset of the current batch / item)
    task,               \* per payload position: the state of its scoring call
    gather_exc,         \* the exception set on the pending gather, if any
    normalized_scores,  \* local: the criterion results collected so far
    batch_log,          \* the batches announced by logger.info, in order
    report,             \* the value returned
    error,              \* the exception raised by the call
    overtaken,          \* history: a call completed before an earlier call of its batch
    llm_result,         \* parse_rubric: what LLMRubricParser.parse returned
    rubric_pc,          \* parse_rubric: position
    rubric_out,         \* parse_rubric: the rubric returned
    rubric_error,       \* parse_rubric: the exception raised
    json_payload,       \* parse_llm_json: the argument
    json_fixed,         \* parse_llm_json: what repair_json gives (None: not installed)
    json_pc,            \* parse_llm_json: position
    json_out,           \* parse_llm_json: the value returned or the exception raised
    json_steps,         \* history: the parsing steps run, in order
    json_value,         \* history: the JSON value the payload was written from
    json_form,          \* history: how the text of that value was wrapped
    call_kind,          \* provider call: score_item, score_item_async or parse
    provider,           \* provider call: self.provider
    raw_text,           \* provider call: the rubric text given to parse
    max_output_tokens,  \* provider call: self.max_output_tokens
    response,           \* provider call: what the provider answers the request with
    call_pc,            \* provider call: position
    call_out,           \* provider call: the value returned or the exception raised
    call_payload,       \* history: the payload the call handed to parse_llm_json
    requests,           \* the number of requests sent to a provider
    clients,            \* the number of provider clients constructed for scoring
    endpoint,           \* request: the endpoint, "evaluations" or "with-rubric"
    grader_given,       \* request: a grader_email is given
    ep_pc,              \* request: position of the handler
    session,            \* request: the rows flushed in the session and not committed
    committed,          \* the rows committed by the request
    status,             \* response: the HTTP status (0: none yet)
    detail              \* response: the detail of the error, up to the colon

scoring_vars == <<criteria, transcript_text, batch_size, rubric_payload, pc, i, task,
                  gather_exc, normalized_scores, batch_log, report, error, overtaken>>
rubric_vars == <<llm_result, rubric_pc, rubric_out, rubric_error>>
json_vars == <<json_payload, json_fixed, json_pc, json_out, json_steps, json_value,
               json_form>>
client_vars == <<call_kind, provider, raw_text, max_output_tokens, response, call_pc,
                 call_out, call_payload>>
endpoint_vars == <<endpoint, grader_given, ep_pc, session, committed, status, detail>>
vars == <<criteria, transcript_text, batch_size, rubric_payload, pc, i, task,
          gather_exc, normalized_scores, batch_log, report, error, overtaken,
          llm_result, rubric_pc, rubric_out, rubric_error,
          json_payload, json_fixed, json_pc, json_out, json_steps, json_value,
          json_form,
          call_kind, provider, raw_text, max_output_tokens, response, call_pc,
          call_out, call_payload, requests, clients,
          endpoint, grader_given, ep_pc, session, committed, status, detail>>

(***************************************************************************)
(* Bounds of the model.                                                    *)
(***************************************************************************)
MaxCriteria == 3        \* longest criteria list given to score_criteria_parallel
MaxBatch == 3           \* largest batch_size
MaxSeqCriteria == 4     \* longest criteria list given to score_criteria

(***************************************************************************)
(* Values.                                                                 *)
(***************************************************************************)
NoneV == [t |-> "none"]
Num(v) == [t |-> "num", v |-> v]
Str(s) == [t |-> "str", s |-> s]

Min(a, b) == IF a <= b THEN a ELSE b
Max(a, b) == IF a >= b THEN a ELSE b
Abs(x) == IF x < 0 THEN -x ELSE x
Sgn(x) == IF x < 0 THEN -1 ELSE IF x > 0 THEN 1 ELSE 0

\* Python truthiness of a value: None, 0 and "" are false.
Truthy(x) ==
    CASE x.t = "none" -> FALSE
      [] x.t = "num" -> x.v # 0
      [] x.t = "str" -> x.s # <<>>
      [] x.t = "list" -> x.es # <<>>
      [] x.t = "dict" -> DOMAIN x.kv # {}
      [] OTHER -> TRUE

\* str.strip(): leading and trailing blanks removed.
RECURSIVE LStrip(_)
LStrip(s) == IF s # <<>> /\ Head(s) = " " THEN LStrip(Tail(s)) ELSE s
RECURSIVE RStrip(_)
RStrip(s) == IF s # <<>> /\ s[Len(s)] = " " THEN RStrip(SubSeq(s, 1, Len(s) - 1)) ELSE s
Strip(s) == RStrip(LStrip(s))

\* round(x, 2) on thousandths: the nearest multiple of 10, a tie to the even one.
Round2(x) ==
    LET q == x \div 10
        r == x % 10
    IN  IF r < 5 THEN q * 10
        ELSE IF r > 5 THEN (q + 1) * 10
        ELSE IF q % 2 = 0 THEN q * 10 ELSE (q + 1) * 10

RECURSIVE SumSeq(_)
SumSeq(s) == IF s = <<>> THEN 0 ELSE Head(s) + SumSeq(Tail(s))

\* A float quotient n / d kept exact: a fraction in lowest terms, its denominator positive,
\* or the ZeroDivisionError Python raises for d = 0.
ZeroDivision == [t |-> "raise", exc |-> "ZeroDivisionError"]
RECURSIVE Gcd(_, _)
Gcd(a, b) == IF b = 0 THEN a ELSE Gcd(b, a % b)
Quot(n, d) ==
    IF d = 0 THEN ZeroDivision
    ELSE LET g == Gcd(Abs(n), Abs(d))
         IN  [t |-> "frac", num |-> (n * Sgn(d)) \div g, den |-> Abs(d) \div g]
Frac(n) == [t |-> "frac", num |-> n, den |-> 1]
\* comparisons of fractions
FracLess(a, b) == a.num * b.den < b.num * a.den
FracGeqInt(a, k) == a.num >= k * a.den

\* dict.get(key) of a dict value (None when the key is absent).
HasKey(d, k) == k \in DOMAIN d.kv
Get(d, k) == IF HasKey(d, k) THEN d.kv[k] ELSE NoneV
Dict(f) == [t |-> "dict", kv |-> f]
List(es) == [t |-> "list", es |-> es]
Raise(exc) == [t |-> "raise", exc |-> exc]

\* str(n) for a natural number, one token per digit.
DigitChars == <<"0", "1", "2", "3", "4", "5", "6", "7", "8", "9">>
RECURSIVE ToStr(_)
ToStr(n) == IF n < 10 THEN <<DigitChars[n + 1]>>
            ELSE ToStr(n \div 10) \o <<DigitChars[(n % 10) + 1]>>

\* float(x): a number is kept, a string that is no number raises ValueError,
\* None, a list or a dict raise TypeError.
FloatOf(x) ==
    CASE x.t = "num" -> x
      [] x.t = "str" -> Raise("ValueError")
      [] OTHER -> Raise("TypeError")

(***************************************************************************)
(* scoring.py: the rubric payload (lines 196-206 and 306-316).             *)
(***************************************************************************)
PayloadMaxScore(item) ==
    LET m == IF Truthy(item.max_score) THEN item.max_score.v ELSE 0
    IN  IF m # 0 THEN m ELSE 1000

PayloadItem(item, idx) ==
    [rubric_item_id |->
        IF Truthy(item.rubric_item_id) THEN item.rubric_item_id
        ELSE IF Truthy(item.id) THEN item.id
        ELSE Str(<<"criterion_">> \o ToStr(idx)),
     name |-> Str(Strip(IF Truthy(item.name) THEN item.name.s
                        ELSE <<"Criterion", " ">> \o ToStr(idx))),
     max_score |-> PayloadMaxScore(item)]

\* mutant: every item takes the max_score of the first criterion
BuildPayload_SharedMaxScore(cs) ==
    [k \in 1..Len(cs) |->
        [PayloadItem(cs[k], k) EXCEPT !.max_score = PayloadMaxScore(cs[1])]]

BuildPayload(cs) == [k \in 1..Len(cs) |-> PayloadItem(cs[k], k)]

(***************************************************************************)
(* scoring.py: one criterion result from the scorer's answer               *)
(* (lines 214-233 and 325-342).  resp is what score_item / score_item_async*)
(* returned, or the exception it raised.                                   *)
(***************************************************************************)
NO_JUSTIFICATION == <<"No justification provided.">>

ClampScore(score_value, max_score) == Max(0, Min(score_value, max_score))

\* mutant: no placeholder stands in for an empty justification
Justification_NoPlaceholder(evaluation) ==
    LET j == Get(evaluation, "justification")
    IN  Strip(IF Truthy(j) THEN j.s ELSE <<>>)

\* (evaluation.get("justification") or "").strip() or "No justification provided."
Justification(evaluation) ==
    LET j == Get(evaluation, "justification")
        stripped == Strip(IF Truthy(j) THEN j.s ELSE <<>>)
    IN  IF stripped = <<>> THEN NO_JUSTIFICATION ELSE stripped

ScoreSingleItem(item, resp) ==
    IF resp.t = "raise" THEN resp
    ELSE IF resp.t # "dict" THEN Raise("AttributeError")
    ELSE
      LET wrapped == Get(resp, "evaluation")
          evaluation == IF Truthy(wrapped) THEN wrapped ELSE resp
      IN  IF evaluation.t # "dict" THEN Raise("AttributeError")
          ELSE
            LET score_value == IF HasKey(evaluation, "score")
                               THEN FloatOf(Get(evaluation, "score"))
                               ELSE Num(0)
            IN  IF score_value.t = "raise" THEN score_value
                ELSE [t |-> "ok",
                      rubric_item_id |-> item.rubric_item_id,
                      name |-> item.name,
                      score |-> Round2(ClampScore(score_value.v, item.max_score)),
                      max_score |-> item.max_score,
                      feedback |-> Justification(evaluation),
                      evidence |-> Justification(evaluation),
                      justification |-> Justification(evaluation)]

(***************************************************************************)
(* scoring.py: the summary statistics (lines 235-276 and 353-394).         *)
(***************************************************************************)
\* mutant: the thresholds are exclusive
performance_band_Exclusive(percent) ==
    IF percent.num > 90 * percent.den THEN "Outstanding"
    ELSE IF percent.num > 80 * percent.den THEN "Strong"
    ELSE IF percent.num > 65 * percent.den THEN "Competent"
    ELSE IF percent.num > 50 * percent.den THEN "Developing"
    ELSE "Needs Support"

\* performance_band(percent), lines 397-406
performance_band(percent) ==
    IF FracGeqInt(percent, 90) THEN "Outstanding"
    ELSE IF FracGeqInt(percent, 80) THEN "Strong"
    ELSE IF FracGeqInt(percent, 65) THEN "Competent"
    ELSE IF FracGeqInt(percent, 50) THEN "Developing"
    ELSE "Needs Support"

\* mutant: the sum of the max_scores is not rounded
MaxTotalScore_Unrounded(scores) ==
    SumSeq([k \in 1..Len(scores) |-> scores[k].max_score])

TotalScore(scores) == Round2(SumSeq([k \in 1..Len(scores) |-> scores[k].score]))
MaxTotalScore(scores) == Round2(SumSeq([k \in 1..Len(scores) |-> scores[k].max_score]))

\* mutant: the division is not guarded
Percent_Unguarded(total_score, max_total_score) ==
    Quot(total_score * 100, max_total_score)

\* percent = (total_score / max_total_score) * 100 if max_total_score else 0.0
Percent(total_score, max_total_score) ==
    IF max_total_score # 0 THEN Quot(total_score * 100, max_total_score) ELSE Frac(0)

\* the sort key: entry["score"] / entry["max_score"] if entry["max_score"] else 0.0
RatioKey(entry) ==
    IF entry.max_score # 0 THEN Quot(entry.score, entry.max_score) ELSE Frac(0)

\* sorted(..., key=RatioKey): stable, ascending.  Insert x after the entries whose
\* key is not greater than its own.
RECURSIVE InsertAsc(_, _)
InsertAsc(sorted, x) ==
    IF sorted = <<>> THEN <<x>>
    ELSE IF FracLess(RatioKey(x), RatioKey(Head(sorted)))
         THEN <<x>> \o sorted
         ELSE <<Head(sorted)>> \o InsertAsc(Tail(sorted), x)
RECURSIVE SortedAsc(_)
SortedAsc(s) ==
    IF s = <<>> THEN <<>>
    ELSE InsertAsc(SortedAsc(SubSeq(s, 1, Len(s) - 1)), s[Len(s)])

\* sorted(..., key=RatioKey, reverse=True): stable, descending (entries of equal
\* key stay in their original order).
RECURSIVE InsertDesc(_, _)
InsertDesc(sorted, x) ==
    IF sorted = <<>> THEN <<x>>
    ELSE IF FracLess(RatioKey(Head(sorted)), RatioKey(x))
         THEN <<x>> \o sorted
         ELSE <<Head(sorted)>> \o InsertDesc(Tail(sorted), x)
RECURSIVE SortedDesc(_)
SortedDesc(s) ==
    IF s = <<>> THEN <<>>
    ELSE InsertDesc(SortedDesc(SubSeq(s, 1, Len(s) - 1)), s[Len(s)])

FirstThree(s) == SubSeq(s, 1, Min(3, Len(s)))

\* f"{item['name']}: {item['score']}/{item['max_score']}"
Entry(item) == [name |-> item.name, score |-> item.score, max_score |-> item.max_score]
Entries(s) == [k \in 1..Len(s) |-> Entry(s[k])]

\* item["score"] >= 0.8 * item["max_score"], in tenths of thousandths
IsStrength(item) == item.score * 10 >= 8 * item.max_score
\* item["score"] <= 0.6 * item["max_score"]
IsArea(item) == item.score * 10 <= 6 * item.max_score

RECURSIVE KeepStrengths(_)
KeepStrengths(s) ==
    IF s = <<>> THEN <<>>
    ELSE (IF IsStrength(Head(s)) THEN <<Head(s)>> ELSE <<>>) \o KeepStrengths(Tail(s))
RECURSIVE KeepAreas(_)
KeepAreas(s) ==
    IF s = <<>> THEN <<>>
    ELSE (IF IsArea(Head(s)) THEN <<Head(s)>> ELSE <<>>) \o KeepAreas(Tail(s))

\* mutant: the strengths are listed by the first aggregation of a process only
Strengths_FirstReportOnly(scores) ==
    IF report = NoneV THEN FirstThree(Entries(KeepStrengths(SortedDesc(scores)))) ELSE <<>>

Strengths(scores) == FirstThree(Entries(KeepStrengths(SortedDesc(scores))))
Areas(scores) == FirstThree(Entries(KeepAreas(SortedAsc(scores))))

\* f"{percent:.1f}": the percent in tenths, rounded to the nearest (a tie to even)
PercentTenths(percent) ==
    LET n == percent.num * 10
        q == n \div percent.den
        r2 == 2 * (n % percent.den)
    IN  IF r2 < percent.den THEN q
        ELSE IF r2 > percent.den THEN q + 1
        ELSE IF q % 2 = 0 THEN q ELSE q + 1

\* the dict returned, or the ZeroDivisionError of a division
Aggregate(scores) ==
    LET total_score == TotalScore(scores)
        max_total_score == MaxTotalScore(scores)
        percent == Percent(total_score, max_total_score)
    IN  IF percent.t = "raise" THEN percent
        ELSE IF \E k \in 1..Len(scores) : RatioKey(scores[k]).t = "raise"
        THEN ZeroDivision
        ELSE
          LET band == performance_band(percent)
              strengths == Strengths(scores)
              areas == Areas(scores)
          IN  [t |-> "report",
               criterion_scores |-> scores,
               total_score |-> total_score,
               max_total_score |-> max_total_score,
               percent |-> percent,
               performance_band |-> band,
               performance_level |-> band,
               summary |-> [total_score |-> total_score,
                            max_total_score |-> max_total_score,
                            percent_1f |-> PercentTenths(percent),
                            band |-> band],
               key_strengths |-> strengths,
               areas_for_development |-> areas,
               narrative_feedback |-> [band |-> band, strengths |-> strengths,
                                       areas |-> areas]]

(***************************************************************************)
(* Inputs.                                                                 *)
(***************************************************************************)
SeqsUpTo(S, n) == UNION {[1..k -> S] : k \in 0..n}

\* criteria given to score_criteria_parallel
ParCriterionInputs ==
    {[rubric_item_id |-> Num(7), id |-> NoneV, name |-> Str(<<"Empathy">>),
      max_score |-> Num(5000)],
     [rubric_item_id |-> NoneV, id |-> NoneV, name |-> NoneV, max_score |-> NoneV],
     [rubric_item_id |-> NoneV, id |-> Num(9), name |-> Str(<<" ", "Rapport", " ">>),
      max_score |-> Num(-2000)]}

\* criteria given to score_criteria: max_score absent, -1.0 and 1.006
SeqCriterionInputs ==
    {[rubric_item_id |-> NoneV, id |-> NoneV, name |-> NoneV, max_score |-> m] :
        m \in {NoneV, Num(-1000), Num(1006)}}

Transcripts == {<<>>, <<" ">>, <<" ", "Doctor: hello", " ">>}

NonNumericAnswer == Dict([score |-> Str(<<"high">>)])
Answer(score, justification) ==
    Dict([evaluation |-> Dict([score |-> Num(score), justification |-> justification])])

\* what the scorer returns (or raises) for one prompt
ParResponses ==
    {Raise("ScoringError"),
     NonNumericAnswer,
     Answer(7000, Str(<<"Good rapport">>)),
     Dict([evaluation |-> Dict([score |-> Num(600)])])}

SeqResponses ==
    {Raise("ScoringError"),
     NonNumericAnswer,
     Answer(7000, Str(<<"Good rapport">>)),
     Answer(800, Str(<<" ">>)),
     Answer(-1000, NoneV),
     Dict([evaluation |-> Dict([score |-> Num(600)])])}

NoTask == [st |-> "new", res |-> NoneV]

InitScoring(pool, maxlen, sizes) ==
    /\ criteria \in SeqsUpTo(pool, maxlen)
    /\ transcript_text \in Transcripts
    /\ batch_size \in sizes
    /\ rubric_payload = <<>>
    /\ pc = "start"
    /\ i = 0
    /\ task = <<>>
    /\ gather_exc = NoneV
    /\ normalized_scores = <<>>
    /\ batch_log = <<>>
    /\ report = NoneV
    /\ error = "none"
    /\ overtaken = FALSE

EndpointIdle ==
    /\ endpoint = "none"
    /\ grader_given = FALSE
    /\ ep_pc = "idle"
    /\ session = {}
    /\ committed = {}
    /\ status = 0
    /\ detail = ""

ClientIdle ==
    /\ call_kind = "none"
    /\ provider = "none"
    /\ raw_text = <<>>
    /\ max_output_tokens = 0
    /\ response = NoneV
    /\ call_pc = "idle"
    /\ call_out = NoneV
    /\ call_payload = NoneV
    /\ requests = 0
    /\ clients = 0

JsonIdle ==
    /\ json_payload = NoneV
    /\ json_fixed = NoneV
    /\ json_pc = "idle"
    /\ json_out = NoneV
    /\ json_steps = <<>>
    /\ json_value = NoneV
    /\ json_form = "none"
    /\ ClientIdle

RubricIdle ==
    /\ llm_result = NoneV
    /\ rubric_pc = "idle"
    /\ rubric_out = NoneV
    /\ rubric_error = "none"
    /\ JsonIdle

(***************************************************************************)
(* score_criteria_parallel (scoring.py 279-394).                           *)
(***************************************************************************)
\* mutant: the transcript is not checked
PreconditionError_NoTranscriptCheck(cs, text) ==
    IF cs = <<>> THEN "ScoringError" ELSE "none"

\* lines 299-302: the preconditions
PreconditionError(cs, text) ==
    IF cs = <<>> THEN "ScoringError"
    ELSE IF text = <<>> \/ Strip(text) = <<>> THEN "ScoringError"
    ELSE "none"

\* _build_llm_scorer (lines 415-443) under lru_cache: the client of the scorer
\* is constructed at the first call and the cached scorer is returned afterwards
BuildLlmScorer == IF clients = 0 THEN 1 ELSE clients

\* lines 299-318
Enter ==
    /\ pc = "start"
    /\ IF PreconditionError(criteria, transcript_text) # "none"
       THEN /\ pc' = "raised"
            /\ error' = PreconditionError(criteria, transcript_text)
            /\ UNCHANGED <<rubric_payload, task, clients>>
       ELSE /\ pc' = "loop"
            /\ rubric_payload' = BuildPayload(criteria)
            /\ task' = [k \in 1..Len(criteria) |-> NoTask]
            \* line 318: _get_llm_scorer, the scorer built once (lru_cache)
            /\ clients' = BuildLlmScorer
            /\ UNCHANGED error
    /\ UNCHANGED <<criteria, transcript_text, batch_size, i, gather_exc,
                   normalized_scores, batch_log, report>>
    /\ UNCHANGED <<overtaken, rubric_vars, json_vars, client_vars, requests>>
    /\ UNCHANGED endpoint_vars

\* mutant: the loop stops before a last batch that is not full
RangeHasNext_DropsPartialBatch ==
    batch_size > 0 /\ i + batch_size <= Len(rubric_payload)

\* range(0, len(rubric_payload), batch_size) has a next value
RangeHasNext == batch_size > 0 /\ i < Len(rubric_payload)

\* mutant: the slice has no upper end, every remaining item is dispatched
BatchPositions_AllRemaining == (i + 1)..Len(rubric_payload)

\* mutant: every batch starts again at the first item
BatchPositions_FromStart == 1..Min(i + batch_size, Len(rubric_payload))

\* batch = rubric_payload[i:i + batch_size], as positions
BatchPositions == (i + 1)..Min(i + batch_size, Len(rubric_payload))

\* line 346 with a zero step: range() raises ValueError
RangeError ==
    /\ pc = "loop"
    /\ batch_size = 0
    /\ pc' = "raised"
    /\ error' = "ValueError"
    /\ UNCHANGED <<criteria, transcript_text, batch_size, rubric_payload, i, task,
                   gather_exc, normalized_scores, batch_log, report>>
    /\ UNCHANGED <<overtaken, rubric_vars, json_vars, client_vars, requests, clients>>
    /\ UNCHANGED endpoint_vars

\* lines 346-349: the next batch is logged and every call of it is started
DispatchBatch ==
    /\ pc = "loop"
    /\ RangeHasNext
    /\ batch_log' = Append(batch_log,
            [number |-> (i \div batch_size) + 1,
             of |-> (Len(rubric_payload) + batch_size - 1) \div batch_size,
             items |-> Cardinality(BatchPositions),
             first |-> i + 1])
    /\ task' = [k \in 1..Len(task) |->
                  IF k \in BatchPositions THEN [st |-> "running", res |-> NoneV]
                  ELSE task[k]]
    /\ gather_exc' = NoneV
    /\ pc' = "gather"
    /\ UNCHANGED <<criteria, transcript_text, batch_size, rubric_payload, i,
                   normalized_scores, report, error>>
    \* line 324: every call of the batch sends its request
    /\ requests' = requests + Cardinality(BatchPositions)
    \* lines 130 and 150: every call constructs its own asynchronous client
    /\ clients' = clients + Cardinality(BatchPositions)
    /\ UNCHANGED <<overtaken, rubric_vars, json_vars, client_vars>>
    /\ UNCHANGED endpoint_vars

\* mutant: the gather waits for every item of the payload, dispatched or not
BatchSettled_WholePayload == \A k \in 1..Len(task) : task[k].st \in {"done", "failed"}

\* every awaitable handed to gather has finished
BatchSettled == \A k \in BatchPositions : task[k].st \in {"done", "failed"}

\* mutant: the gather takes an exception only when no other call is running
GatherException_WhenSettled(current, r) ==
    IF pc = "gather" /\ current = NoneV
       /\ Cardinality({k \in 1..Len(task) : task[k].st = "running"}) <= 1
    THEN r ELSE current

\* mutant: a call's exception is swallowed and never reaches the gather
GatherException_Swallowed(current, r) == current

\* the exception on the gather's future after a call raised r: the first one stays
GatherException(current, r) ==
    IF pc = "gather" /\ current = NoneV THEN r ELSE current

\* lines 321-342: one call completes, in any order; a failure is set on the
\* gather the caller awaits unless an earlier one was
Complete(k) ==
    /\ task[k].st = "running"
    /\ \E resp \in ParResponses :
         LET r == ScoreSingleItem(rubric_payload[k], resp)
         IN  IF r.t = "raise"
             THEN /\ task' = [task EXCEPT ![k] = [st |-> "failed", res |-> r]]
                  /\ gather_exc' = GatherException(gather_exc, r)
             ELSE /\ task' = [task EXCEPT ![k] = [st |-> "done", res |-> r]]
                  /\ UNCHANGED gather_exc
    /\ overtaken' = (overtaken \/ \E j \in 1..(k - 1) : task[j].st = "running")
    /\ UNCHANGED <<criteria, transcript_text, batch_size, rubric_payload, pc, i,
                   normalized_scores, batch_log, report, error>>
    /\ UNCHANGED <<rubric_vars, json_vars, client_vars, requests, clients>>
    /\ UNCHANGED endpoint_vars

\* mutant: the results of a batch taken in the reverse order
GatherResults_Reversed(positions) ==
    [j \in 1..Cardinality(positions) |-> task[i + Cardinality(positions) + 1 - j].res]

\* mutant: the results in the order the calls completed in, as far as recorded
GatherResults_AsCompleted(positions) ==
    [j \in 1..Cardinality(positions) |->
        IF overtaken THEN task[i + Cardinality(positions) + 1 - j].res
        ELSE task[i + j].res]

\* the list asyncio.gather returns: one result per awaitable, in argument order
GatherResults(positions) ==
    [j \in 1..Cardinality(positions) |-> task[i + j].res]

\* lines 349-350: every call of the batch returned; the results are appended
GatherReturn ==
    /\ pc = "gather"
    /\ gather_exc = NoneV
    /\ BatchSettled
    /\ normalized_scores' = normalized_scores \o GatherResults(BatchPositions)
    /\ i' = i + batch_size
    /\ pc' = "loop"
    /\ UNCHANGED <<criteria, transcript_text, batch_size, rubric_payload, task,
                   gather_exc, batch_log, report, error>>
    /\ UNCHANGED <<overtaken, rubric_vars, json_vars, client_vars, requests, clients>>
    /\ UNCHANGED endpoint_vars

\* line 349: a call of the batch raised; gather re-raises the first exception
GatherRaise ==
    /\ pc = "gather"
    /\ gather_exc # NoneV
    /\ pc' = "raised"
    /\ error' = gather_exc.exc
    /\ UNCHANGED <<criteria, transcript_text, batch_size, rubric_payload, i, task,
                   gather_exc, normalized_scores, batch_log, report>>
    /\ UNCHANGED <<overtaken, rubric_vars, json_vars, client_vars, requests, clients>>
    /\ UNCHANGED endpoint_vars

\* lines 352-394: the loop is over; the report is built and returned
Finish ==
    /\ pc = "loop"
    /\ batch_size # 0
    /\ ~RangeHasNext
    /\ LET r == Aggregate(normalized_scores)
       IN  IF r.t = "raise"
           THEN pc' = "raised" /\ error' = r.exc /\ UNCHANGED report
           ELSE pc' = "returned" /\ report' = r /\ UNCHANGED error
    /\ UNCHANGED <<criteria, transcript_text, batch_size, rubric_payload, i, task,
                   gather_exc, normalized_scores, batch_log>>
    /\ UNCHANGED <<overtaken, rubric_vars, json_vars, client_vars, requests, clients>>
    /\ UNCHANGED endpoint_vars

Init ==
    /\ InitScoring(ParCriterionInputs, MaxCriteria, (-1)..MaxBatch)
    /\ RubricIdle
    /\ EndpointIdle

Next ==
    \/ Enter
    \/ RangeError
    \/ DispatchBatch
    \/ \E k \in 1..Len(task) : Complete(k)
    \/ GatherReturn
    \/ GatherRaise
    \/ Finish

Spec == Init /\ [][Next]_vars

(***************************************************************************)
(* score_criteria (scoring.py 184-276).                                    *)
(***************************************************************************)
\* lines 190-208
SeqEnter ==
    /\ pc = "start"
    /\ IF PreconditionError(criteria, transcript_text) # "none"
       THEN /\ pc' = "raised"
            /\ error' = PreconditionError(criteria, transcript_text)
            /\ UNCHANGED <<rubric_payload, clients>>
       ELSE /\ pc' = "seq_loop"
            /\ rubric_payload' = BuildPayload(criteria)
            \* line 208: _get_llm_scorer
            /\ clients' = BuildLlmScorer
            /\ UNCHANGED error
    /\ UNCHANGED <<criteria, transcript_text, batch_size, i, task, gather_exc,
                   normalized_scores, batch_log, report>>
    /\ UNCHANGED <<overtaken, rubric_vars, json_vars, client_vars, requests>>
    /\ UNCHANGED endpoint_vars

\* lines 210-233: the next item is scored and its result appended
SeqScoreItem ==
    /\ pc = "seq_loop"
    /\ i < Len(rubric_payload)
    /\ \E resp \in SeqResponses :
         LET r == ScoreSingleItem(rubric_payload[i + 1], resp)
         IN  IF r.t = "raise"
             THEN /\ pc' = "raised"
                  /\ error' = r.exc
                  /\ UNCHANGED <<normalized_scores, i>>
             ELSE /\ normalized_scores' = Append(normalized_scores, r)
                  /\ i' = i + 1
                  /\ UNCHANGED <<pc, error>>
    /\ UNCHANGED <<criteria, transcript_text, batch_size, rubric_payload, task,
                   gather_exc, batch_log, report>>
    \* line 213: the call sends one request
    /\ requests' = requests + 1
    \* self.client is used
    /\ UNCHANGED clients
    /\ UNCHANGED <<overtaken, rubric_vars, json_vars, client_vars>>
    /\ UNCHANGED endpoint_vars

\* lines 235-276
SeqFinish ==
    /\ pc = "seq_loop"
    /\ i >= Len(rubric_payload)
    /\ LET r == Aggregate(normalized_scores)
       IN  IF r.t = "raise"
           THEN pc' = "raised" /\ error' = r.exc /\ UNCHANGED report
           ELSE pc' = "returned" /\ report' = r /\ UNCHANGED error
    /\ UNCHANGED <<criteria, transcript_text, batch_size, rubric_payload, i, task,
                   gather_exc, normalized_scores, batch_log>>
    /\ UNCHANGED <<overtaken, rubric_vars, json_vars, client_vars, requests, clients>>
    /\ UNCHANGED endpoint_vars

InitSeq ==
    /\ InitScoring(SeqCriterionInputs, MaxSeqCriteria, {10})
    /\ RubricIdle
    /\ EndpointIdle

NextSeq ==
    \/ SeqEnter
    \/ SeqScoreItem
    \/ SeqFinish

SpecSeq == InitSeq /\ [][NextSeq]_vars

(***************************************************************************)
(* Properties of the scoring calls.                                        *)
(***************************************************************************)
Running == {k \in 1..Len(task) : task[k].st = "running"}
Failed == {k \in 1..Len(task) : task[k].st = "failed"}
Done == {k \in 1..Len(task) : task[k].st = "done"}

\* C1: for a non-empty criteria list of length N and batch_size >= 1, a call of
\* score_criteria_parallel that returns gives exactly N criterion results, and
\* result k carries the rubric_item_id and the name of input criterion k,
\* whatever order the calls of a batch completed in.
C1_ResultsInCriterionOrder ==
    (pc = "returned" /\ batch_size >= 1) =>
        /\ Len(report.criterion_scores) = Len(criteria)
        /\ \A k \in 1..Len(criteria) :
            LET res == report.criterion_scores[k]
                c == criteria[k]
            IN  /\ res.rubric_item_id = rubric_payload[k].rubric_item_id
                /\ res.name = rubric_payload[k].name
                /\ Truthy(c.rubric_item_id) => res.rubric_item_id = c.rubric_item_id
                /\ (~Truthy(c.rubric_item_id) /\ Truthy(c.id)) => res.rubric_item_id = c.id
                /\ (~Truthy(c.rubric_item_id) /\ ~Truthy(c.id))
                      => res.rubric_item_id = Str(<<"criterion_">> \o ToStr(k))

\* three criteria with three different ids were scored in batches of two, and a
\* call completed before an earlier call of its batch
C1_Witness ==
    /\ pc = "returned"
    /\ Len(criteria) = 3
    /\ batch_size = 2
    /\ overtaken
    /\ \A j, k \in 1..3 :
          j # k => rubric_payload[j].rubric_item_id # rubric_payload[k].rubric_item_id

\* C2: the score stored in every criterion result is within 0 .. max_score of
\* its criterion; a model score above max_score gives exactly max_score and a
\* negative model score gives 0.
ModelScores == {-1000, 600, 800, 7000}
C2_ScoreWithinMaxScore ==
    /\ \A k \in 1..Len(normalized_scores) :
          /\ 0 <= normalized_scores[k].score
          /\ normalized_scores[k].score <= normalized_scores[k].max_score
    /\ \A k \in 1..Len(rubric_payload) : \A s \in ModelScores :
          LET item == rubric_payload[k]
              r == ScoreSingleItem(item, Answer(s, NoneV))
          IN  /\ 0 <= r.score /\ r.score <= item.max_score
              /\ s > item.max_score => r.score = item.max_score
              /\ s < 0 => r.score = 0

\* C3: once a scoring call of a batch has failed, the call of
\* score_criteria_parallel cannot return: the failure is set on the gather it
\* awaits, no report exists, and the call ends raising.
C3_FailureFailsTheCall ==
    Failed # {} =>
        /\ pc \in {"gather", "raised"}
        /\ pc = "gather" => gather_exc # NoneV
        /\ report = NoneV

\* a call failed while another call of the run had succeeded, and the whole
\* call raised
C3_Witness ==
    /\ pc = "raised"
    /\ Failed # {}
    /\ Done # {}
    /\ normalized_scores # <<>>

\* C4: for N criteria and batch_size b >= 1 the batches are issued one after
\* another, batch k starting at position (k-1)*b+1 and holding
\* min(k*b, N) - (k-1)*b items, the started calls being exactly those of the
\* batches issued; a call that returns has issued ceil(N/b) batches.
C4_BatchesOfBatchSize ==
    batch_size >= 1 =>
        LET n == Len(criteria)
            b == batch_size
        IN  /\ \A k \in 1..Len(batch_log) :
                  /\ batch_log[k].number = k
                  /\ batch_log[k].first = (k - 1) * b + 1
                  /\ batch_log[k].items = Min(k * b, n) - (k - 1) * b
                  /\ batch_log[k].items >= 1
            /\ \A p \in 1..Len(task) :
                  task[p].st # "new" <=> p <= Min(Len(batch_log) * b, n)
            /\ pc = "returned" =>
                  /\ Len(batch_log) * b >= n
                  /\ (Len(batch_log) - 1) * b < n

\* three criteria with batch_size 2 were scored in two batches, of 2 and of 1
C4_Witness ==
    /\ pc = "returned"
    /\ Len(criteria) = 3
    /\ batch_size = 2
    /\ Len(batch_log) = 2
    /\ batch_log[1].items = 2
    /\ batch_log[2].items = 1

\* C5: with batch_size b >= 1 at most b scoring calls are in flight, and a call
\* of a later batch is started only when every call of every earlier batch has
\* completed.
C5_BoundedInFlight ==
    batch_size >= 1 =>
        /\ Cardinality(Running) <= batch_size
        /\ \A j, k \in 1..Len(task) :
              ((j - 1) \div batch_size < (k - 1) \div batch_size /\ task[k].st # "new")
                  => task[j].st \in {"done", "failed"}

\* a call of the second batch is in flight, batch_size being 2
C5_Witness ==
    /\ batch_size = 2
    /\ \E k \in Running : k > batch_size

\* C6: in a returned report total_score is the sum of the criterion scores
\* rounded to 2 decimals and max_total_score is the sum of the criteria's
\* max_scores rounded to 2 decimals.
C6_TotalsAreRoundedSums ==
    pc = "returned" =>
        /\ Len(report.criterion_scores) = Len(rubric_payload)
        /\ report.total_score =
              Round2(SumSeq([k \in 1..Len(report.criterion_scores) |->
                                report.criterion_scores[k].score]))
        /\ report.max_total_score =
              Round2(SumSeq([k \in 1..Len(rubric_payload) |->
                                rubric_payload[k].max_score]))

\* a report of several criteria whose max_scores sum to a value that rounding
\* to 2 decimals changes
C6_Witness ==
    /\ pc = "returned"
    /\ Len(rubric_payload) >= 2
    /\ report.total_score > 0
    /\ report.max_total_score #
          SumSeq([k \in 1..Len(rubric_payload) |-> rubric_payload[k].max_score])

\* C7: the percent of a report is total_score / max_total_score * 100, and 0
\* when max_total_score is 0; the summary shows that percent; no call ends in
\* a ZeroDivisionError.
C7_PercentWithoutDivisionByZero ==
    /\ error # "ZeroDivisionError"
    /\ pc = "returned" =>
          LET p == report.percent
          IN  /\ p.den > 0
              /\ report.max_total_score = 0 => p.num = 0
              /\ report.max_total_score # 0 =>
                    p.num * report.max_total_score = report.total_score * 100 * p.den
              /\ 2 * Abs(p.num * 10 - report.summary.percent_1f * p.den) <= p.den
              /\ report.summary.total_score = report.total_score
              /\ report.summary.max_total_score = report.max_total_score

\* a report over criteria whose max_total_score is 0
C7_Witness ==
    /\ pc = "returned"
    /\ Len(report.criterion_scores) >= 2
    /\ report.max_total_score = 0
    /\ report.percent.num = 0

\* C8: the band of a report is Outstanding for percent >= 90, Strong for
\* 80 <= percent < 90, Competent for 65 <= percent < 80, Developing for
\* 50 <= percent < 65 and Needs Support below 50; performance_level and the
\* band shown in the summary are the same band.
C8_BandByThresholds ==
    pc = "returned" =>
        LET p == report.percent
            band == report.performance_band
            AtLeast(n) == p.num >= n * p.den
        IN  /\ band = "Outstanding" <=> AtLeast(90)
            /\ band = "Strong" <=> (AtLeast(80) /\ ~AtLeast(90))
            /\ band = "Competent" <=> (AtLeast(65) /\ ~AtLeast(80))
            /\ band = "Developing" <=> (AtLeast(50) /\ ~AtLeast(65))
            /\ band = "Needs Support" <=> ~AtLeast(50)
            /\ report.performance_level = band
            /\ report.summary.band = band

\* a report whose percent is exactly 65, the lower end of Competent
C8_Witness ==
    /\ pc = "returned"
    /\ report.max_total_score > 0
    /\ report.percent.num = 65 * report.percent.den
    /\ report.performance_band = "Competent"

\* C9: key_strengths are the criteria whose ratio score/max_score is >= 0.8,
\* by ratio descending, areas_for_development those whose ratio is <= 0.6, by
\* ratio ascending, equal ratios in criterion order, each cut to 3 entries.
RatioNum(e) == e.score * Sgn(e.max_score)
RatioDen(e) == Abs(e.max_score)
RatioLess(a, b) == RatioNum(a) * RatioDen(b) < RatioNum(b) * RatioDen(a)
C9_StrengthsAndAreasByRatio ==
    pc = "returned" =>
        LET cs == report.criterion_scores
            S == {k \in 1..Len(cs) : RatioNum(cs[k]) * 10 >= 8 * RatioDen(cs[k])}
            W == {k \in 1..Len(cs) : RatioNum(cs[k]) * 10 <= 6 * RatioDen(cs[k])}
            \* j comes before k in the order of the strengths / of the areas
            BeforeS(j, k) == RatioLess(cs[k], cs[j])
                             \/ (~RatioLess(cs[j], cs[k]) /\ j < k)
            BeforeW(j, k) == RatioLess(cs[j], cs[k])
                             \/ (~RatioLess(cs[k], cs[j]) /\ j < k)
            RankS(k) == 1 + Cardinality({j \in S : BeforeS(j, k)})
            RankW(k) == 1 + Cardinality({j \in W : BeforeW(j, k)})
            Shown(k) == [name |-> cs[k].name, score |-> cs[k].score,
                         max_score |-> cs[k].max_score]
        IN  /\ Len(report.key_strengths) = Min(3, Cardinality(S))
            /\ \A k \in S : RankS(k) <= 3 => report.key_strengths[RankS(k)] = Shown(k)
            /\ Len(report.areas_for_development) = Min(3, Cardinality(W))
            /\ \A k \in W :
                  RankW(k) <= 3 => report.areas_for_development[RankW(k)] = Shown(k)

(***************************************************************************)
(* rubric_parser.py: parse_rubric (lines 275-371).                         *)
(***************************************************************************)
MaxEntries == 2         \* longest list of entries in a model response
MaxDepth == 2           \* deepest nesting under "rubric" / "data" in a model response

\* line 434: the keys a criteria list is looked for under, in this order
candidate_keys == <<"criteria", "rubric_items", "items", "rubricCriteria",
                    "rubric_items_list">>

\* [entry for entry in payload if isinstance(entry, dict)]
RECURSIVE DictEntries(_)
DictEntries(es) ==
    IF es = <<>> THEN <<>>
    ELSE (IF Head(es).t = "dict" THEN <<Head(es)>> ELSE <<>>) \o DictEntries(Tail(es))

\* lines 442-445: the first candidate key, from position n on, that holds a list
RECURSIVE FirstListKey(_, _)
FirstListKey(result, n) ==
    IF n > Len(candidate_keys) THEN 0
    ELSE IF Get(result, candidate_keys[n]).t = "list" THEN n
    ELSE FirstListKey(result, n + 1)

\* _resolve_criteria_payload, lines 425-452
RECURSIVE resolve_criteria_payload(_)
resolve_criteria_payload(result) ==
    IF result.t = "list" THEN DictEntries(result.es)
    ELSE IF result.t # "dict" THEN <<>>
    ELSE IF FirstListKey(result, 1) # 0
         THEN DictEntries(Get(result, candidate_keys[FirstListKey(result, 1)]).es)
    ELSE LET nested == IF Truthy(Get(result, "rubric")) THEN Get(result, "rubric")
                       ELSE Get(result, "data")
         IN  IF nested.t = "dict" THEN resolve_criteria_payload(nested) ELSE <<>>

\* _coerce_float, lines 264-272
coerce_float(value) ==
    CASE value.t = "num" -> value
      [] OTHER -> Raise("RubricParsingError")

\* lines 290-297 and 344-351: one criterion of the rubric, or the exception
RubricCriterion(item, idx) ==
    LET max_score_raw == Get(item, "max_score")
        max_score == IF max_score_raw.t = "none" THEN Num(1000)
                     ELSE coerce_float(max_score_raw)
    IN  IF max_score.t = "raise" THEN max_score
        ELSE [t |-> "criterion",
              name |-> Str(Strip(IF Truthy(Get(item, "name")) THEN Get(item, "name").s
                                 ELSE <<"Criterion", " ">> \o ToStr(idx))),
              max_score |-> max_score.v]

\* mutant: an empty criteria payload is let through
NoCriteria_Unchecked(criteria_payload) == FALSE

\* line 282: if not criteria_payload
NoCriteria(criteria_payload) == criteria_payload = <<>>

\* parse_rubric applied to what LLMRubricParser.parse returned: the rubric, or
\* the exception raised
parse_rubric(result) ==
    LET criteria_payload == resolve_criteria_payload(result)
    IN  IF NoCriteria(criteria_payload) THEN Raise("RubricParsingError")
        \* line 285: result.get on a list
        ELSE IF result.t # "dict" THEN Raise("AttributeError")
        ELSE
          LET cs == [k \in 1..Len(criteria_payload) |->
                        RubricCriterion(criteria_payload[k], k)]
          IN  IF \E k \in 1..Len(cs) : cs[k].t = "raise"
              THEN Raise("RubricParsingError")
              ELSE [t |-> "rubric",
                    criteria |-> cs,
                    max_total_score |-> SumSeq([k \in 1..Len(cs) |-> cs[k].max_score])]

\* the entries a model puts in a criteria list: two criterion objects and a string
EntryInputs ==
    {Dict([name |-> Str(<<"Empathy">>), max_score |-> Num(5000)]),
     Dict([name |-> Str(<<" ", "Rapport">>)]),
     Str(<<"n/a">>)}

\* what a model puts under a candidate key: nothing usable, or a list of entries
KeyPayloads ==
    {NoneV, Str(<<"see below">>)}
        \cup {List(es) : es \in SeqsUpTo(EntryInputs, MaxEntries)}

\* what stands under the earlier of two candidate keys
EarlierPayloads ==
    {NoneV, Str(<<"see below">>), List(<<>>), List(<<Str(<<"n/a">>)>>),
     List(<<Dict([name |-> Str(<<"Empathy">>), max_score |-> Num(5000)])>>)}

\* objects holding no candidate key, one, or two (a the earlier, b the later)
FlatObjects ==
    {Dict(<<>>)}
        \cup {Dict([k \in {candidate_keys[a]} |-> p]) :
                 a \in 1..Len(candidate_keys), p \in KeyPayloads}
        \cup UNION {UNION {{Dict([k \in {candidate_keys[a], candidate_keys[b]} |->
                                     IF k = candidate_keys[a] THEN p ELSE q]) :
                               p \in EarlierPayloads, q \in KeyPayloads} :
                           b \in (a + 1)..Len(candidate_keys)} :
                    a \in 1..Len(candidate_keys)}

\* an object nested under "rubric" or "data", the other key absent or null
Wrap(how, x) ==
    CASE how = "rubric" -> Dict([rubric |-> x])
      [] how = "data" -> Dict([data |-> x])
      [] OTHER -> Dict([rubric |-> NoneV, data |-> x])

\* x nested as path tells, the last element of path being the outermost object
RECURSIVE WrapAll(_, _)
WrapAll(path, x) ==
    IF path = <<>> THEN x ELSE WrapAll(Tail(path), Wrap(Head(path), x))

Nestings == SeqsUpTo({"rubric", "data", "null rubric, data"}, MaxDepth)

\* what LLMRubricParser.parse returns that is no object: null, a number, a
\* string, a list
NonObjectResults ==
    {NoneV, Num(5000), Str(<<"no rubric">>)}
        \cup {List(es) : es \in SeqsUpTo(EntryInputs, MaxEntries)}

ScoringIdle ==
    /\ criteria = <<>>
    /\ transcript_text = <<>>
    /\ batch_size = 10
    /\ rubric_payload = <<>>
    /\ pc = "idle"
    /\ i = 0
    /\ task = <<>>
    /\ gather_exc = NoneV
    /\ normalized_scores = <<>>
    /\ batch_log = <<>>
    /\ report = NoneV
    /\ error = "none"
    /\ overtaken = FALSE

\* lines 281-371, on the response the parser returned
ParseRubric ==
    /\ rubric_pc = "start"
    /\ LET r == parse_rubric(llm_result)
       IN  IF r.t = "raise"
           THEN rubric_pc' = "raised" /\ rubric_error' = r.exc /\ UNCHANGED rubric_out
           ELSE rubric_pc' = "returned" /\ rubric_out' = r /\ UNCHANGED rubric_error
    /\ UNCHANGED llm_result
    /\ UNCHANGED <<scoring_vars, json_vars, client_vars, requests, clients>>
    /\ UNCHANGED endpoint_vars

InitRubric ==
    /\ \/ llm_result \in NonObjectResults
       \/ \E path \in Nestings, x \in FlatObjects : llm_result = WrapAll(path, x)
    /\ rubric_pc = "start"
    /\ rubric_out = NoneV
    /\ rubric_error = "none"
    /\ ScoringIdle
    /\ JsonIdle
    /\ EndpointIdle

NextRubric == ParseRubric

SpecRubric == InitRubric /\ [][NextRubric]_vars

\* C10: parse_rubric never returns a rubric whose criteria list is empty: for
\* a model response of any shape from which no criterion is resolved it raises
\* RubricParsingError.
C10_NoEmptyRubric ==
    /\ rubric_pc = "returned" =>
          /\ rubric_out.criteria # <<>>
          /\ resolve_criteria_payload(llm_result) # <<>>
    /\ (rubric_pc # "start" /\ resolve_criteria_payload(llm_result) = <<>>) =>
          /\ rubric_pc = "raised"
          /\ rubric_error = "RubricParsingError"
          /\ rubric_out = NoneV

\* the response nests an object whose criteria list holds no object, and
\* parse_rubric raised
C10_Witness ==
    /\ rubric_pc = "raised"
    /\ rubric_error = "RubricParsingError"
    /\ llm_result.t = "dict"
    /\ HasKey(llm_result, "rubric")
    /\ Get(llm_result, "rubric").t = "dict"
    /\ Get(Get(llm_result, "rubric"), "criteria") = List(<<Str(<<"n/a">>)>>)

(***************************************************************************)
(* llm_utils.py: parse_llm_json (lines 14-62).                             *)
(*                                                                         *)
(* A text is a sequence of tokens: the braces and brackets, the comma,     *)
(* "a:" (the key "a" with its colon), "1" (a number), "fence" (the three   *)
(* backticks of a code fence), the blank, the newline, and words that are  *)
(* no JSON ("json", "Here").                                               *)
(***************************************************************************)
MaxTextLen == 4         \* longest free text given to parse_llm_json

JSONDecodeError(doc) == [t |-> "raise", exc |-> "JSONDecodeError", doc |-> doc]

Whitespace == {" ", "\n"}

\* the first position from p on that holds no whitespace
RECURSIVE SkipWs(_, _)
SkipWs(s, p) == IF p <= Len(s) /\ s[p] \in Whitespace THEN SkipWs(s, p + 1) ELSE p

NoParse == [ok |-> FALSE]
Parsed(v, p) == [ok |-> TRUE, v |-> v, p |-> p]

\* json.loads, line 21: the decoder reads one value from position p on; it
\* gives the value and the position behind it, or fails
RECURSIVE ParseValue(_, _)
RECURSIVE ParseElements(_, _, _)
RECURSIVE ParseMembers(_, _, _)
ParseValue(s, p) ==
    IF p > Len(s) THEN NoParse
    ELSE IF s[p] = "1" THEN Parsed(Num(1000), p + 1)
    ELSE IF s[p] = "["
         THEN LET q == SkipWs(s, p + 1)
              IN  IF q <= Len(s) /\ s[q] = "]" THEN Parsed(List(<<>>), q + 1)
                  ELSE ParseElements(s, q, <<>>)
    ELSE IF s[p] = "{"
         THEN LET q == SkipWs(s, p + 1)
              IN  IF q <= Len(s) /\ s[q] = "}" THEN Parsed(Dict(<<>>), q + 1)
                  ELSE ParseMembers(s, q, <<>>)
    ELSE NoParse

\* the elements of an array from p on, acc those read so far
ParseElements(s, p, acc) ==
    LET r == ParseValue(s, p)
    IN  IF ~r.ok THEN NoParse
        ELSE LET q == SkipWs(s, r.p)
             IN  IF q > Len(s) THEN NoParse
                 ELSE IF s[q] = "]" THEN Parsed(List(Append(acc, r.v)), q + 1)
                 ELSE IF s[q] = ","
                      THEN ParseElements(s, SkipWs(s, q + 1), Append(acc, r.v))
                 ELSE NoParse

\* the members of an object from p on, acc the dict read so far (a key read
\* again replaces its value)
ParseMembers(s, p, acc) ==
    IF p > Len(s) \/ s[p] # "a:" THEN NoParse
    ELSE LET r == ParseValue(s, SkipWs(s, p + 1))
         IN  IF ~r.ok THEN NoParse
             ELSE LET q == SkipWs(s, r.p)
                      kv == [k \in (DOMAIN acc) \cup {"a"} |->
                                IF k = "a" THEN r.v ELSE acc[k]]
                  IN  IF q > Len(s) THEN NoParse
                      ELSE IF s[q] = "}" THEN Parsed(Dict(kv), q + 1)
                      ELSE IF s[q] = ","
                           THEN ParseMembers(s, SkipWs(s, q + 1), kv)
                      ELSE NoParse

\* _load(data), lines 20-21: the value of the whole text, whitespace around it
\* allowed, or json.JSONDecodeError
Load(data) ==
    LET r == ParseValue(data, SkipWs(data, 1))
    IN  IF r.ok /\ SkipWs(data, r.p) > Len(data) THEN r.v ELSE JSONDecodeError(data)

\* str.strip(chars): the leading and trailing tokens of chars removed
RECURSIVE LStripChars(_, _)
LStripChars(s, chars) ==
    IF s # <<>> /\ Head(s) \in chars THEN LStripChars(Tail(s), chars) ELSE s
RECURSIVE RStripChars(_, _)
RStripChars(s, chars) ==
    IF s # <<>> /\ s[Len(s)] \in chars
    THEN RStripChars(SubSeq(s, 1, Len(s) - 1), chars) ELSE s
StripChars(s, chars) == RStripChars(LStripChars(s, chars), chars)

\* str.startswith / str.endswith of one token
StartsWith(s, tok) == s # <<>> /\ Head(s) = tok
EndsWith(s, tok) == s # <<>> /\ s[Len(s)] = tok

\* str.find / str.rfind of one token: an index from 0, or -1
Find(s, tok) ==
    IF \E k \in 1..Len(s) : s[k] = tok
    THEN (CHOOSE k \in 1..Len(s) : s[k] = tok /\ \A j \in 1..(k - 1) : s[j] # tok) - 1
    ELSE -1
RFind(s, tok) ==
    IF \E k \in 1..Len(s) : s[k] = tok
    THEN (CHOOSE k \in 1..Len(s) : s[k] = tok /\ \A j \in (k + 1)..Len(s) : s[j] # tok) - 1
    ELSE -1

IsValue(r) == r.t # "raise"

\* mutant: the fences are left on the text
Inner_Unstripped(trimmed) == trimmed

\* line 30: trimmed.strip of backticks, blanks and newlines
Inner(trimmed) == StripChars(trimmed, {"fence", " ", "\n"})

\* mutant: the block ends at the first closing brace
Candidate_ToFirstClosingBrace(trimmed) ==
    SubSeq(trimmed, Find(trimmed, "{") + 1, Find(trimmed, "}") + 1)

\* line 47: trimmed[start : end + 1]
Candidate(trimmed) == SubSeq(trimmed, Find(trimmed, "{") + 1, RFind(trimmed, "}") + 1)

\* mutant: an empty object stands in for a text that cannot be decoded
Exhausted_Default(trimmed) == Dict(<<>>)

\* line 62: raise json.JSONDecodeError("Unable to decode LLM JSON payload.", trimmed, 0)
Exhausted(trimmed) == JSONDecodeError(trimmed)

\* line 29: trimmed.startswith and trimmed.endswith of the fence
Fenced(trimmed) == StartsWith(trimmed, "fence") /\ EndsWith(trimmed, "fence")

\* line 37
Bracketed(trimmed) == StartsWith(trimmed, "[") /\ EndsWith(trimmed, "]")

\* lines 44-46: start != -1 and end != -1 and end > start
Braced(trimmed) ==
    /\ Find(trimmed, "{") # -1
    /\ RFind(trimmed, "}") # -1
    /\ RFind(trimmed, "}") > Find(trimmed, "{")

\* the steps run on a text that no step parses, or up to step last when that
\* one parses (1: the full text, 2: the fences stripped, 3: the array, 4: the
\* {...} block, 5: the repair)
StepsRun(trimmed, fixed, last) ==
    LET run == [k \in 1..5 |->
                  CASE k = 1 -> TRUE
                    [] k = 2 -> Fenced(trimmed)
                    [] k = 3 -> Bracketed(trimmed)
                    [] k = 4 -> Braced(trimmed)
                    [] k = 5 -> fixed.t # "none"]
        RECURSIVE From(_)
        From(k) == IF k > last THEN <<>>
                   ELSE (IF run[k] THEN <<k>> ELSE <<>>) \o From(k + 1)
    IN  From(1)

\* lines 23-62 with the outcome of each _load: the first step that is run and
\* parses gives the value
FirstParsed(trimmed, fixed, r1, r2, r3, r4, r5) ==
    IF IsValue(r1) THEN [out |-> r1, steps |-> <<1>>]
    ELSE IF Fenced(trimmed) /\ IsValue(r2)
    THEN [out |-> r2, steps |-> StepsRun(trimmed, fixed, 2)]
    ELSE IF Bracketed(trimmed) /\ IsValue(r3)
    THEN [out |-> r3, steps |-> StepsRun(trimmed, fixed, 3)]
    ELSE IF Braced(trimmed) /\ IsValue(r4)
    THEN [out |-> r4, steps |-> StepsRun(trimmed, fixed, 4)]
    ELSE IF fixed.t # "none" /\ IsValue(r5)
    THEN [out |-> r5, steps |-> StepsRun(trimmed, fixed, 5)]
    ELSE [out |-> Exhausted(trimmed), steps |-> StepsRun(trimmed, fixed, 5)]

\* lines 23-62 on a text and the text trimmed (line 26)
ParseText(text, trimmed, fixed) ==
    FirstParsed(trimmed, fixed, Load(text), Load(Inner(trimmed)), Load(trimmed),
                Load(Candidate(trimmed)), Load(fixed.s))

\* parse_llm_json(payload), lines 14-62, with fixed what repair_json makes of
\* the trimmed text (None when the package is not installed): the value
\* returned or the exception raised, and the steps run
parse_llm_json(payload, fixed) ==
    IF payload.t \in {"dict", "list"} THEN [out |-> payload, steps |-> <<>>]
    \* json.loads of what is neither str nor bytes
    ELSE IF payload.t # "str" THEN [out |-> Raise("TypeError"), steps |-> <<1>>]
    ELSE ParseText(payload.s, StripChars(payload.s, Whitespace), fixed)

\* json.dumps without blanks: the text of a JSON value
RECURSIVE JsonText(_)
RECURSIVE JsonTextList(_)
JsonText(v) ==
    CASE v.t = "num" -> <<"1">>
      [] v.t = "list" -> <<"[">> \o JsonTextList(v.es) \o <<"]">>
      [] v.t = "dict" -> IF DOMAIN v.kv = {} THEN <<"{", "}">>
                         ELSE <<"{", "a:">> \o JsonText(v.kv["a"]) \o <<"}">>
JsonTextList(es) ==
    IF es = <<>> THEN <<>>
    ELSE IF Len(es) = 1 THEN JsonText(es[1])
    ELSE JsonText(es[1]) \o <<",">> \o JsonTextList(Tail(es))

\* the JSON values a model answers with: objects and arrays, nested, and a number
JsonObjects ==
    {Dict([a |-> Num(1000)]),
     Dict(<<>>),
     Dict([a |-> Dict([a |-> Num(1000)])]),
     Dict([a |-> List(<<Num(1000), Num(1000)>>)])}
JsonArrays ==
    {List(<<>>),
     List(<<Num(1000)>>),
     List(<<Dict([a |-> Num(1000)])>>),
     List(<<Dict([a |-> Num(1000)]), Dict(<<>>)>>)}
JsonValues == JsonObjects \cup JsonArrays \cup {Num(1000)}

\* the forms a model wraps its JSON text in
Forms == {"plain", "padded", "fenced", "fenced with tag", "prose", "noisy"}
Wrapped(form, text) ==
    CASE form = "plain" -> text
      [] form = "padded" -> <<"\n", " ">> \o text \o <<" ", "\n">>
      [] form = "fenced" -> <<"fence", "\n">> \o text \o <<"\n", "fence">>
      [] form = "fenced with tag" -> <<"fence", "json", "\n">> \o text \o <<"\n", "fence">>
      [] form = "prose" -> <<"Here", " ">> \o text \o <<" ", "Here">>
      [] form = "noisy" ->
            <<"Here", ",", " ", "1", "\n", "fence">> \o text \o <<"\n", "]", " ", "Here">>

\* the tokens of a free text
FreeTokens == {"{", "}", "[", "]", "1", "fence", " ", "Here"}

\* what repair_json gives when it is installed: the empty text for a text
\* beyond repair, or the text of a value
Repairs == {Str(<<>>), Str(<<"{", "}">>)}

\* lines 14-62
ParseLlmJson ==
    /\ json_pc = "start"
    /\ LET r == parse_llm_json(json_payload, json_fixed)
       IN  /\ json_pc' = IF IsValue(r.out) THEN "returned" ELSE "raised"
           /\ json_out' = r.out
           /\ json_steps' = r.steps
    /\ UNCHANGED <<json_payload, json_fixed, json_value, json_form>>
    /\ UNCHANGED <<scoring_vars, rubric_vars, client_vars, requests, clients>>
    /\ UNCHANGED endpoint_vars

InitJson ==
    /\ \/ \E v \in JsonValues, form \in Forms :
             /\ json_value = v
             /\ json_form = form
             /\ json_payload = Str(Wrapped(form, JsonText(v)))
       \/ /\ json_value \in JsonObjects \cup JsonArrays
          /\ json_form = "structured"
          /\ json_payload = json_value
       \/ \E n \in 0..MaxTextLen : \E text \in [1..n -> FreeTokens] :
             /\ json_value = NoneV
             /\ json_form = "none"
             /\ json_payload = Str(text)
    /\ json_fixed \in {NoneV} \cup Repairs
    /\ json_pc = "start"
    /\ json_out = NoneV
    /\ json_steps = <<>>
    /\ ScoringIdle
    /\ llm_result = NoneV
    /\ rubric_pc = "idle"
    /\ rubric_out = NoneV
    /\ rubric_error = "none"
    /\ ClientIdle
    /\ EndpointIdle

NextJson == ParseLlmJson

SpecJson == InitJson /\ [][NextJson]_vars

ChainStep(k, text, fixed, strip2) ==
    LET trimmed == StripChars(text, Whitespace)
        first == CHOOSE p \in 1..Len(trimmed) :
                    trimmed[p] = "{" /\ \A q \in 1..(p - 1) : trimmed[q] # "{"
        last == CHOOSE p \in 1..Len(trimmed) :
                    trimmed[p] = "}" /\ \A q \in (p + 1)..Len(trimmed) : trimmed[q] # "}"
    IN  CASE k = 1 -> Load(text)
          [] k = 2 -> Load(strip2)
          [] k = 3 -> IF trimmed # <<>> /\ trimmed[1] = "[" /\ trimmed[Len(trimmed)] = "]"
                      THEN Load(trimmed) ELSE NoParse
          [] k = 4 -> IF (\E p \in 1..Len(trimmed) : trimmed[p] = "{")
                         /\ (\E p \in 1..Len(trimmed) : trimmed[p] = "}")
                         /\ first < last
                      THEN Load(SubSeq(trimmed, first, last)) ELSE NoParse
          [] k = 5 -> IF fixed.t = "str" THEN Load(fixed.s) ELSE NoParse

ChainValue(r) == "t" \in DOMAIN r /\ r.t # "raise"

\* the chain run in the order 1..5 up to the first step that gives a value
ChainHolds(strip2) ==
    json_pc # "start" =>
        IF json_payload.t # "str"
        THEN json_pc = "returned" /\ json_out = json_payload /\ json_steps = <<>>
        ELSE LET Step(k) == ChainStep(k, json_payload.s, json_fixed, strip2)
                 Good == {k \in 1..5 : ChainValue(Step(k))}
                 n == Len(json_steps)
             IN  /\ n >= 1 /\ json_steps[1] = 1
                 /\ \A j \in 1..(n - 1) : json_steps[j] < json_steps[j + 1]
                 /\ \A j \in 1..n : json_steps[j] \in 1..5
                 /\ \A j \in 1..(n - 1) : json_steps[j] \notin Good
                 /\ IF Good = {}
                    THEN json_pc = "raised"
                    ELSE /\ json_pc = "returned"
                         /\ json_steps[n] \in Good
                         /\ \A k \in Good : json_steps[n] <= k
                         /\ json_out = Step(json_steps[n])

\* the trimmed text without one leading and one trailing fence
OnePairStripped(text) ==
    LET trimmed == StripChars(text, Whitespace)
    IN  IF Len(trimmed) >= 2 /\ trimmed[1] = "fence" /\ trimmed[Len(trimmed)] = "fence"
        THEN StripChars(SubSeq(trimmed, 2, Len(trimmed) - 1), Whitespace)
        ELSE trimmed

\* the trimmed text without any leading or trailing backtick, blank or newline
AllFencesStripped(text) ==
    LET trimmed == StripChars(text, Whitespace)
    IN  IF trimmed # <<>> /\ trimmed[1] = "fence" /\ trimmed[Len(trimmed)] = "fence"
        THEN StripChars(text, {"fence", " ", "\n"})
        ELSE trimmed

\* C12 as stated: a structured payload is returned unchanged; a text goes
\* through the steps full text, one pair of fences stripped, array, {...}
\* block, repair, in this order, and the first step that parses gives the
\* result, no later step being run.
C12_ChainWithOnePairOfFences ==
    ChainHolds(IF json_payload.t = "str" THEN OnePairStripped(json_payload.s) ELSE <<>>)

\* C12, amended: as stated, step 2 parsing the text with all its leading and
\* trailing backticks, blanks and newlines stripped.
C12_ChainInFixedOrder ==
    ChainHolds(IF json_payload.t = "str" THEN AllFencesStripped(json_payload.s) ELSE <<>>)

\* an object fenced with a language tag failed steps 1 and 2 and was found by
\* step 4, the repair installed and not run
C12_Witness ==
    /\ json_pc = "returned"
    /\ json_form = "fenced with tag"
    /\ json_steps = <<1, 2, 4>>
    /\ json_fixed # NoneV
    /\ json_out = Dict([a |-> Num(1000)])

(***************************************************************************)
(* The provider calls: LLMScoringClient.score_item (scoring.py 73-121),    *)
(* score_item_async (123-181) and LLMRubricParser.parse (rubric_parser.py  *)
(* 143-212).  A message is a sequence of characters, so that the test for  *)
(* "429", "rate" and "too many requests" in str(exc).lower() is computed.  *)
(***************************************************************************)
\* scoring.py line 116
SCORING_FAILED ==
    <<"L", "L", "M", " ", "s", "c", "o", "r", "i", "n", "g", " ", "r", "e",
      "q", "u", "e", "s", "t", " ", "f", "a", "i", "l", "e", "d", ":", " ">>
\* scoring.py line 176
ASYNC_SCORING_FAILED ==
    <<"L", "L", "M", " ", "a", "s", "y", "n", "c", " ", "s", "c", "o", "r",
      "i", "n", "g", " ", "r", "e", "q", "u", "e", "s", "t", " ", "f", "a",
      "i", "l", "e", "d", ":", " ">>
\* scoring.py lines 105 and 165
SCORING_REFUSED ==
    <<"L", "L", "M", " ", "r", "e", "f", "u", "s", "e", "d", " ", "t", "o",
      " ", "s", "c", "o", "r", "e", " ", "c", "r", "i", "t", "e", "r", "i",
      "o", "n", ":", " ">>
\* scoring.py line 121
SCORING_INVALID_JSON ==
    <<"L", "L", "M", " ", "s", "c", "o", "r", "i", "n", "g", " ", "r", "e",
      "t", "u", "r", "n", "e", "d", " ", "i", "n", "v", "a", "l", "i", "d",
      " ", "J", "S", "O", "N", ":", " ">>
\* scoring.py line 181
ASYNC_SCORING_INVALID_JSON ==
    <<"L", "L", "M", " ", "a", "s", "y", "n", "c", " ", "s", "c", "o", "r",
      "i", "n", "g", " ", "r", "e", "t", "u", "r", "n", "e", "d", " ", "i",
      "n", "v", "a", "l", "i", "d", " ", "J", "S", "O", "N", ":", " ">>
\* llm_utils.py line 62: str() of the JSONDecodeError
DECODE_ERROR_TEXT ==
    <<"U", "n", "a", "b", "l", "e", " ", "t", "o", " ", "d", "e", "c", "o",
      "d", "e", " ", "L", "L", "M", " ", "J", "S", "O", "N", " ", "p", "a",
      "y", "l", "o", "a", "d", ".", ":", " ", "l", "i", "n", "e", " ", "1",
      " ", "c", "o", "l", "u", "m", "n", " ", "1", " ", "(", "c", "h", "a",
      "r", " ", "0", ")">>
\* str() of the IndexError of content[0] on an empty content list
INDEX_ERROR_TEXT ==
    <<"l", "i", "s", "t", " ", "i", "n", "d", "e", "x", " ", "o", "u", "t",
      " ", "o", "f", " ", "r", "a", "n", "g", "e">>
\* rubric_parser.py line 145
RUBRIC_TEXT_EMPTY ==
    <<"R", "u", "b", "r", "i", "c", " ", "t", "e", "x", "t", " ", "i", "s",
      " ", "e", "m", "p", "t", "y", ".">>
\* rubric_parser.py line 163, up to the number
TRUNCATED_STOP ==
    <<"L", "L", "M", " ", "r", "e", "s", "p", "o", "n", "s", "e", " ", "t",
      "r", "u", "n", "c", "a", "t", "e", "d", " ", "(", "s", "t", "o", "p",
      "_", "r", "e", "a", "s", "o", "n", "=", "m", "a", "x", "_", "t", "o",
      "k", "e", "n", "s", ")", ".", " ", "I", "n", "c", "r", "e", "a", "s",
      "e", " ", "A", "P", "P", "_", "L", "L", "M", "_", "M", "A", "X", "_",
      "O", "U", "T", "P", "U", "T", "_", "T", "O", "K", "E", "N", "S", " ",
      "(", "c", "u", "r", "r", "e", "n", "t", " ">>
\* rubric_parser.py line 192, up to the number
TRUNCATED_FINISH ==
    <<"L", "L", "M", " ", "r", "e", "s", "p", "o", "n", "s", "e", " ", "t",
      "r", "u", "n", "c", "a", "t", "e", "d", " ", "(", "f", "i", "n", "i",
      "s", "h", "_", "r", "e", "a", "s", "o", "n", "=", "l", "e", "n", "g",
      "t", "h", ")", ".", " ", "I", "n", "c", "r", "e", "a", "s", "e", " ",
      "A", "P", "P", "_", "L", "L", "M", "_", "M", "A", "X", "_", "O", "U",
      "T", "P", "U", "T", "_", "T", "O", "K", "E", "N", "S", " ", "(", "c",
      "u", "r", "r", "e", "n", "t", " ">>
\* rubric_parser.py lines 163 and 192, behind the number
TRUNCATED_END ==
    <<")", ".">>
\* rubric_parser.py line 180
PARSE_REFUSED ==
    <<"L", "L", "M", " ", "r", "e", "f", "u", "s", "e", "d", " ", "t", "o",
      " ", "p", "a", "r", "s", "e", " ", "r", "u", "b", "r", "i", "c", ":",
      " ">>
\* rubric_parser.py line 200
RATE_LIMIT_EXCEEDED ==
    <<"R", "a", "t", "e", " ", "l", "i", "m", "i", "t", " ", "e", "x", "c",
      "e", "e", "d", "e", "d", ".", " ", "P", "l", "e", "a", "s", "e", " ",
      "w", "a", "i", "t", " ", "a", " ", "m", "i", "n", "u", "t", "e", " ",
      "b", "e", "f", "o", "r", "e", " ", "u", "p", "l", "o", "a", "d", "i",
      "n", "g", " ", "a", "n", "o", "t", "h", "e", "r", " ", "r", "u", "b",
      "r", "i", "c", ",", " ", "o", "r", " ", "s", "w", "i", "t", "c", "h",
      " ", "t", "o", " ", "a", " ", "d", "i", "f", "f", "e", "r", "e", "n",
      "t", " ", "L", "L", "M", " ", "p", "r", "o", "v", "i", "d", "e", "r",
      " ", "i", "n", " ", "s", "e", "t", "t", "i", "n", "g", "s", ".">>
\* rubric_parser.py line 202
REQUEST_FAILED ==
    <<"L", "L", "M", " ", "r", "e", "q", "u", "e", "s", "t", " ", "f", "a",
      "i", "l", "e", "d", ":", " ">>
\* rubric_parser.py line 205
EMPTY_RESPONSE ==
    <<"L", "L", "M", " ", "r", "e", "t", "u", "r", "n", "e", "d", " ", "a",
      "n", " ", "e", "m", "p", "t", "y", " ", "r", "e", "s", "p", "o", "n",
      "s", "e", ".">>
\* rubric_parser.py line 212
INVALID_JSON ==
    <<"L", "L", "M", " ", "r", "e", "t", "u", "r", "n", "e", "d", " ", "i",
      "n", "v", "a", "l", "i", "d", " ", "J", "S", "O", "N", ":", " ">>
\* the setting named at rubric_parser.py lines 163 and 192
LIMIT_NAME ==
    <<"A", "P", "P", "_", "L", "L", "M", "_", "M", "A", "X", "_", "O", "U",
      "T", "P", "U", "T", "_", "T", "O", "K", "E", "N", "S">>

UpperLetters == <<"A", "B", "C", "D", "E", "F", "G", "H", "I", "J", "K", "L", "M",
                  "N", "O", "P", "Q", "R", "S", "T", "U", "V", "W", "X", "Y", "Z">>
LowerLetters == <<"a", "b", "c", "d", "e", "f", "g", "h", "i", "j", "k", "l", "m",
                  "n", "o", "p", "q", "r", "s", "t", "u", "v", "w", "x", "y", "z">>

\* str.lower()
LowerChar(c) ==
    IF \E k \in 1..26 : UpperLetters[k] = c
    THEN LowerLetters[CHOOSE k \in 1..26 : UpperLetters[k] = c]
    ELSE c
Lower(s) == [k \in 1..Len(s) |-> LowerChar(s[k])]

\* needle in s
Contains(s, needle) ==
    \E p \in 0..(Len(s) - Len(needle)) :
        \A k \in 1..Len(needle) : s[p + k] = needle[k]

RaiseMsg(exc, msg, cause) == [t |-> "raise", exc |-> exc, msg |-> msg, cause |-> cause]

\* line 198: "429" in error_message or "rate" in error_message or
\* "too many requests" in error_message, error_message being str(exc).lower()
RateLimited(msg) ==
    LET error_message == Lower(msg)
    IN  \/ Contains(error_message, <<"4", "2", "9">>)
        \/ Contains(error_message, <<"r", "a", "t", "e">>)
        \/ Contains(error_message, <<"t", "o", "o", " ", "m", "a", "n", "y", " ",
                                     "r", "e", "q", "u", "e", "s", "t", "s">>)

\* what a provider answers a request with: the SDK raises an error, or gives a
\* response with a stop / finish reason ("limit": max_tokens, length), a
\* refusal and a parsed value (OpenAI messages only) and a content (None: an
\* empty content list)
ProviderError(text) == [t |-> "error", text |-> text]
Reply(stop, refusal, parsed, content) ==
    [t |-> "reply", stop |-> stop, refusal |-> refusal, parsed |-> parsed,
     content |-> content]

\* the outcome of a provider call: what it returns or raises, the payload it
\* handed to parse_llm_json (None: none) and the requests it sent
Outcome(out, payload, sent) == [out |-> out, payload |-> payload, sent |-> sent]

\* scoring.py lines 118-121 and 178-181: parse_llm_json(payload), a
\* JSONDecodeError raised again as ScoringError
ScoringRaised(kind, r) ==
    IF r.t = "raise" /\ r.exc = "JSONDecodeError"
    THEN RaiseMsg("ScoringError",
                  (IF kind = "score_item" THEN SCORING_INVALID_JSON
                   ELSE ASYNC_SCORING_INVALID_JSON) \o DECODE_ERROR_TEXT, r)
    ELSE r
ScoringDecode(kind, payload, fixed) ==
    ScoringRaised(kind, parse_llm_json(payload, fixed).out)

\* LLMScoringClient.score_item (lines 73-121) and score_item_async (lines
\* 123-181) on the provider's answer
ScoreItem(kind, prov, resp, fixed) ==
    LET failed == IF kind = "score_item" THEN SCORING_FAILED ELSE ASYNC_SCORING_FAILED
        \* what the try block raises (None: nothing)
        raised ==
            IF resp.t = "error" THEN RaiseMsg("APIError", resp.text, NoneV)
            ELSE IF prov = "anthropic" /\ resp.content = NoneV
            THEN RaiseMsg("IndexError", INDEX_ERROR_TEXT, NoneV)
            ELSE IF prov # "anthropic" /\ Truthy(resp.refusal)
            THEN RaiseMsg("ScoringError", SCORING_REFUSED \o resp.refusal.s, NoneV)
            ELSE NoneV
    IN  \* lines 115-116 and 175-176: except Exception as exc
        IF raised # NoneV
        THEN Outcome(RaiseMsg("ScoringError", failed \o raised.msg, raised), NoneV, 1)
        \* lines 106-108 and 166-168
        ELSE IF prov # "anthropic" /\ resp.parsed.t \in {"dict", "list"}
        THEN Outcome(resp.parsed, NoneV, 1)
        ELSE Outcome(ScoringDecode(kind, resp.content, fixed), resp.content, 1)

\* rubric_parser.py lines 195-202: except Exception as exc
ParseCaught(exc) ==
    IF RateLimited(exc.msg) THEN RaiseMsg("RubricParsingError", RATE_LIMIT_EXCEEDED, exc)
    ELSE RaiseMsg("RubricParsingError", REQUEST_FAILED \o exc.msg, exc)

\* rubric_parser.py lines 204-212: the empty payload, then parse_llm_json, a
\* JSONDecodeError raised again as RubricParsingError
ParseRaised(r) ==
    IF r.t = "raise" /\ r.exc = "JSONDecodeError"
    THEN RaiseMsg("RubricParsingError", INVALID_JSON \o DECODE_ERROR_TEXT, r)
    ELSE r
ParseDecode(payload, fixed) ==
    IF payload \in {NoneV, Str(<<>>), List(<<>>)}
    THEN Outcome(RaiseMsg("RubricParsingError", EMPTY_RESPONSE, NoneV), NoneV, 1)
    ELSE Outcome(ParseRaised(parse_llm_json(payload, fixed).out), payload, 1)

\* the response object itself, which line 165 takes for the payload when the
\* content list is empty
ResponseObject == [t |-> "object"]

\* LLMRubricParser.parse (rubric_parser.py lines 143-212) on the provider's answer
Parse(text, prov, resp, tokens, fixed) ==
    LET \* what the try block raises (None: nothing)
        raised ==
            IF resp.t = "error" THEN RaiseMsg("APIError", resp.text, NoneV)
            ELSE IF prov = "anthropic" /\ resp.stop = "limit"
            THEN RaiseMsg("RubricParsingError",
                          TRUNCATED_STOP \o ToStr(tokens) \o TRUNCATED_END, NoneV)
            ELSE IF prov # "anthropic" /\ Truthy(resp.refusal)
            THEN RaiseMsg("RubricParsingError", PARSE_REFUSED \o resp.refusal.s, NoneV)
            ELSE IF prov # "anthropic" /\ resp.parsed.t \notin {"dict", "list"}
                    /\ resp.stop = "limit"
            THEN RaiseMsg("RubricParsingError",
                          TRUNCATED_FINISH \o ToStr(tokens) \o TRUNCATED_END, NoneV)
            ELSE NoneV
        \* lines 165 and 194
        payload == IF prov = "anthropic" /\ resp.content = NoneV THEN ResponseObject
                   ELSE resp.content
    IN  IF text = <<>> \/ StripChars(text, Whitespace) = <<>>
        THEN Outcome(RaiseMsg("RubricParsingError", RUBRIC_TEXT_EMPTY, NoneV), NoneV, 0)
        ELSE IF raised # NoneV THEN Outcome(ParseCaught(raised), NoneV, 1)
        \* lines 182-184
        ELSE IF prov # "anthropic" /\ resp.parsed.t \in {"dict", "list"}
        THEN Outcome(resp.parsed, NoneV, 1)
        ELSE ParseDecode(payload, fixed)

\* the texts of the errors an SDK raises
ErrorTexts ==
    {<<"E", "r", "r", "o", "r", " ", "c", "o", "d", "e", ":", " ", "4", "2",
       "9">>,
     <<"T", "o", "o", " ", "M", "a", "n", "y", " ", "R", "e", "q", "u", "e",
       "s", "t", "s">>,
     <<"C", "o", "n", "n", "e", "c", "t", "i", "o", "n", " ", "e", "r", "r",
       "o", "r", ".">>}

\* the texts of the refusals of a model
RefusalTexts ==
    {<<"I", " ", "c", "a", "n", "n", "o", "t", " ", "g", "e", "n", "e", "r",
       "a", "t", "e", " ", "t", "h", "a", "t", ".">>,
     <<"U", "n", "s", "a", "f", "e", " ", "c", "o", "n", "t", "e", "n", "t",
       ".">>}

\* the texts a model gives for content: nothing, an object, an object in
\* prose, an object cut off, prose
ContentTexts ==
    {<<>>,
     <<"{", "a:", "1", "}">>,
     <<"Here", " ", "{", "a:", "1", "}">>,
     <<"{", "a:", "1">>,
     <<"Here">>}

\* the answers of the Anthropic messages API and of the OpenAI chat completions API
AnthropicResponses ==
    {ProviderError(text) : text \in ErrorTexts}
        \cup {Reply(stop, NoneV, NoneV, content) :
                 stop \in {"end", "limit"},
                 content \in {NoneV} \cup {Str(text) : text \in ContentTexts}}
OpenAIResponses ==
    {ProviderError(text) : text \in ErrorTexts}
        \cup {Reply(stop, refusal, parsed, Str(text)) :
                 stop \in {"end", "limit"},
                 refusal \in {NoneV, Str(<<>>)} \cup {Str(text) : text \in RefusalTexts},
                 parsed \in {NoneV, Dict([a |-> Num(1000)])},
                 text \in ContentTexts}

\* the rubric texts given to parse
RawTexts == {<<>>, <<" ", "\n">>, <<" ", "Rubric", "\n">>}

\* the settings of APP_LLM_MAX_OUTPUT_TOKENS
TokenLimits == {4096, 4290}

\* one provider call: kind is its method
ProviderCall(kind) ==
    /\ call_pc = "start"
    /\ call_kind = kind
    /\ LET r == IF kind = "parse"
                THEN Parse(raw_text, provider, response, max_output_tokens, json_fixed)
                ELSE ScoreItem(kind, provider, response, json_fixed)
       IN  /\ call_pc' = IF r.out.t = "raise" THEN "raised" ELSE "returned"
           /\ call_out' = r.out
           /\ call_payload' = r.payload
           /\ requests' = requests + r.sent
           \* scoring.py lines 130 and 150: score_item_async constructs a client
           /\ clients' = clients + (IF kind = "score_item_async" THEN 1 ELSE 0)
    /\ UNCHANGED <<call_kind, provider, raw_text, max_output_tokens, response>>
    /\ UNCHANGED <<scoring_vars, rubric_vars, json_payload, json_fixed, json_pc,
                   json_out, json_steps, json_value, json_form>>
    /\ UNCHANGED endpoint_vars

\* LLMScoringClient.score_item, lines 73-121
ScoreItemCall == ProviderCall("score_item")

\* LLMScoringClient.score_item_async, lines 123-181
ScoreItemAsyncCall == ProviderCall("score_item_async")

\* LLMRubricParser.parse, lines 143-212
ParseCall == ProviderCall("parse")

InitClient ==
    /\ call_kind \in {"score_item", "score_item_async", "parse"}
    /\ provider \in {"anthropic", "openai"}
    /\ raw_text \in (IF call_kind = "parse" THEN RawTexts ELSE {<<>>})
    /\ max_output_tokens \in (IF call_kind = "parse" THEN TokenLimits ELSE {4096})
    /\ response \in (IF provider = "anthropic" THEN AnthropicResponses
                     ELSE OpenAIResponses)
    /\ json_fixed \in {NoneV} \cup Repairs
    /\ call_pc = "start"
    /\ call_out = NoneV
    /\ call_payload = NoneV
    /\ requests = 0
    \* the client the LLMScoringClient or LLMRubricParser was built with
    /\ clients = 1
    /\ ScoringIdle
    /\ llm_result = NoneV
    /\ rubric_pc = "idle"
    /\ rubric_out = NoneV
    /\ rubric_error = "none"
    /\ json_payload = NoneV
    /\ json_pc = "idle"
    /\ json_out = NoneV
    /\ json_steps = <<>>
    /\ json_value = NoneV
    /\ json_form = "none"
    /\ EndpointIdle

NextClient == ScoreItemCall \/ ScoreItemAsyncCall \/ ParseCall

SpecClient == InitClient /\ [][NextClient]_vars

(***************************************************************************)
(* Properties of the provider calls.                                       *)
(***************************************************************************)
\* no step of the chain parses the text
Undecodable(text, fixed) ==
    \A k \in 1..5 : ~ChainValue(ChainStep(k, text, fixed, AllFencesStripped(text)))

\* C13: when no fallback step parses the text a provider call hands to
\* parse_llm_json, parse_llm_json raises a JSONDecodeError that carries the
\* (trimmed) text, and the call raises its typed failure from it (ScoringError
\* in score_item and score_item_async, RubricParsingError in parse); it returns
\* no value.
C13_DecodeErrorIsTypedFailure ==
    (/\ call_pc # "start"
     /\ call_payload.t = "str"
     /\ Undecodable(call_payload.s, json_fixed)) =>
        /\ call_pc = "raised"
        /\ call_out.exc = (IF call_kind = "parse" THEN "RubricParsingError"
                           ELSE "ScoringError")
        /\ call_out.cause.exc = "JSONDecodeError"
        /\ call_out.cause.doc = StripChars(call_payload.s, Whitespace)
        /\ call_out.msg = (CASE call_kind = "parse" -> INVALID_JSON
                             [] call_kind = "score_item" -> SCORING_INVALID_JSON
                             [] OTHER -> ASYNC_SCORING_INVALID_JSON) \o DECODE_ERROR_TEXT

\* an asynchronous scoring call got prose for an answer, the repair utility
\* could not mend it, and the call raised
C13_Witness ==
    /\ call_pc = "raised"
    /\ call_kind = "score_item_async"
    /\ call_payload = Str(<<"Here">>)
    /\ json_fixed = Str(<<>>)
    /\ call_out.exc = "ScoringError"
    /\ call_out.cause.exc = "JSONDecodeError"

(***************************************************************************)
(* Properties of the criterion results.                                    *)
(***************************************************************************)
\* what a model gives for the justification: nothing, null, the empty string,
\* blanks, a text in blanks, a text
Absent == [t |-> "absent"]
JustificationInputs ==
    {Absent, NoneV, Str(<<>>), Str(<<" ">>), Str(<<" ", " ">>),
     Str(<<" ", "Clear", " ", "answer", " ", " ">>), Str(<<"Clear">>)}

\* a response with the justification j, the evaluation wrapped or not
AnswerWith(j, wrapped) ==
    LET evaluation == IF j = Absent THEN Dict([score |-> Num(600)])
                      ELSE Dict([score |-> Num(600), justification |-> j])
    IN  IF wrapped THEN Dict([evaluation |-> evaluation]) ELSE evaluation

Blank(s) == \A k \in 1..Len(s) : s[k] = " "

\* the text between the blanks around it
Trimmed(s) ==
    LET a == CHOOSE p \in 1..Len(s) : s[p] # " " /\ \A q \in 1..(p - 1) : s[q] = " "
        b == CHOOSE p \in 1..Len(s) : s[p] # " " /\ \A q \in (p + 1)..Len(s) : s[q] = " "
    IN  SubSeq(s, a, b)

ExpectedJustification(j) ==
    IF j = Absent \/ j = NoneV THEN NO_JUSTIFICATION
    ELSE IF Blank(j.s) THEN NO_JUSTIFICATION
    ELSE Trimmed(j.s)

\* C14: every criterion result has a non-empty justification, equal to its
\* feedback and its evidence; for a justification that is absent, null, empty
\* or blank it is "No justification provided.", and otherwise the model's
\* justification without the blanks around it.
C14_JustificationNeverEmpty ==
    /\ \A k \in 1..Len(normalized_scores) :
          LET r == normalized_scores[k]
          IN  /\ r.justification # <<>>
              /\ ~Blank(r.justification)
              /\ r.feedback = r.justification
              /\ r.evidence = r.justification
              /\ r.justification \in {NO_JUSTIFICATION, <<"Good rapport">>}
    /\ \A k \in 1..Len(rubric_payload) : \A j \in JustificationInputs :
          normalized_scores = <<>> => \A wrapped \in BOOLEAN :
             LET r == ScoreSingleItem(rubric_payload[k], AnswerWith(j, wrapped))
             IN  /\ r.t = "ok"
                 /\ r.justification = ExpectedJustification(j)
                 /\ r.feedback = r.justification
                 /\ r.evidence = r.justification

\* a report whose first result carries the model's justification and whose
\* second carries the placeholder
C14_Witness ==
    /\ pc = "returned"
    /\ Len(normalized_scores) >= 2
    /\ normalized_scores[1].justification = <<"Good rapport">>
    /\ normalized_scores[2].justification = NO_JUSTIFICATION

(***************************************************************************)
(* Properties of the rubric extraction.                                    *)
(***************************************************************************)
\* a candidate key of the object holds a list with a criterion object in it
Yields(obj, key) ==
    Get(obj, key).t = "list" /\ \E k \in 1..Len(Get(obj, key).es) : Get(obj, key).es[k].t = "dict"

\* the object under "rubric" or "data", one level down
OneLevelDown(obj) ==
    IF Truthy(Get(obj, "rubric")) THEN Get(obj, "rubric") ELSE Get(obj, "data")

\* the criteria under the first candidate, in priority order, that yields any
FirstYield(obj) ==
    IF \E n \in 1..Len(candidate_keys) : Yields(obj, candidate_keys[n])
    THEN LET n == CHOOSE n \in 1..Len(candidate_keys) :
                     /\ Yields(obj, candidate_keys[n])
                     /\ \A m \in 1..(n - 1) : ~Yields(obj, candidate_keys[m])
         IN  DictEntries(Get(obj, candidate_keys[n]).es)
    ELSE <<>>

\* C15: the candidate keys are tried in the order criteria, rubric_items, items,
\* rubricCriteria, rubric_items_list, then one level down under rubric or data;
\* a response is rejected for holding no criteria only when no candidate yields
\* a criterion, and a response with criteria under a later candidate is
\* accepted with them when an earlier candidate holds none.
C15_EveryCandidateTried ==
    (rubric_pc # "start" /\ llm_result.t = "dict") =>
        LET top == FirstYield(llm_result)
            down == IF OneLevelDown(llm_result).t = "dict"
                    THEN FirstYield(OneLevelDown(llm_result)) ELSE <<>>
            found == IF top # <<>> THEN top ELSE down
        IN  found # <<>> =>
               /\ rubric_pc = "returned"
               /\ Len(rubric_out.criteria) = Len(found)

\* C16, for the criteria handed to a scoring call: max_score > 0 for every
\* criterion of the payload, whatever max_score the caller supplied, an absent
\* max_score being 1.0.
C16_MaxScorePositive ==
    /\ \A k \in 1..Len(rubric_payload) : rubric_payload[k].max_score > 0
    /\ \A k \in 1..Len(criteria) :
          (criteria[k].max_score = NoneV /\ rubric_payload # <<>>) =>
              rubric_payload[k].max_score = 1000

(***************************************************************************)
(* The entry points together: score_criteria_parallel, score_criteria and  *)
(* the provider calls, each from its own initial states.                   *)
(***************************************************************************)
MaxEntryCriteria == 2   \* longest criteria list given to either scoring entry point

InitEntry ==
    \/ /\ InitScoring(SeqCriterionInputs, MaxEntryCriteria, 0..MaxEntryCriteria)
       /\ RubricIdle
       /\ EndpointIdle
    \/ InitClient

NextEntry == Next \/ NextSeq \/ NextClient

SpecEntry == InitEntry /\ [][NextEntry]_vars

\* C17: a call of score_criteria or score_criteria_parallel with an empty
\* criteria list or an empty or blank transcript raises ScoringError, and a
\* call of LLMRubricParser.parse with an empty or blank text raises
\* RubricParsingError, each with no provider request sent.
C17_PreconditionsBeforeRequests ==
    /\ (/\ pc \notin {"idle", "start"}
        /\ criteria = <<>> \/ Blank(transcript_text)) =>
           /\ pc = "raised"
           /\ error = "ScoringError"
           /\ requests = 0
           /\ normalized_scores = <<>>
           /\ \A k \in 1..Len(task) : task[k] = NoTask
    /\ (/\ call_kind = "parse"
        /\ call_pc # "start"
        /\ Blank(raw_text) \/ \A k \in 1..Len(raw_text) : raw_text[k] \in Whitespace) =>
           /\ call_pc = "raised"
           /\ call_out.exc = "RubricParsingError"
           /\ call_out.msg = RUBRIC_TEXT_EMPTY
           /\ requests = 0

\* a parse call with a text of blanks and a scoring call with a blank
\* transcript, each raised with no request sent
C17_Witness ==
    /\ requests = 0
    /\ \/ /\ call_kind = "parse" /\ call_pc = "raised" /\ raw_text = <<" ", "\n">>
       \/ /\ pc = "raised" /\ criteria # <<>> /\ transcript_text = <<" ">>

\* the non-numeric scores of a model response: a text, null, an object, a list
NonNumericScores == {Str(<<"high">>), NoneV, Dict(<<>>), List(<<>>)}

\* C18: a response whose score is non-numeric makes the scoring call fail with
\* ScoringError, the one failure the evaluation endpoints report as "Scoring
\* failed"; it gives no criterion result and no other exception leaves the
\* call.
C18_NonNumericScoreIsScoringError ==
    /\ pc = "raised" => error = "ScoringError"
    /\ \A k \in 1..Len(rubric_payload) : \A s \in NonNumericScores :
          normalized_scores = <<>> => \A wrapped \in BOOLEAN :
             LET evaluation == Dict([score |-> s])
                 r == ScoreSingleItem(rubric_payload[k],
                                      IF wrapped THEN Dict([evaluation |-> evaluation])
                                      ELSE evaluation)
             IN  r.t = "raise" /\ r.exc = "ScoringError"

\* the provider answered the request of the call with a response
Answered ==
    /\ call_pc # "start"
    /\ response.t = "reply"
    /\ call_kind = "parse" => ~(\A k \in 1..Len(raw_text) : raw_text[k] \in Whitespace)

\* C19: a provider call (score_item, score_item_async, parse; either provider)
\* whose response was cut off at the max-token limit, and holds no refusal and
\* no parsed value, raises an error whose message names
\* APP_LLM_MAX_OUTPUT_TOKENS; the text is not handed to parse_llm_json and no
\* value is returned.
C19_TruncationNamesTheLimit ==
    (/\ Answered
     /\ response.stop = "limit"
     /\ ~Truthy(response.refusal)
     /\ response.parsed = NoneV) =>
        /\ call_pc = "raised"
        /\ Contains(call_out.msg, LIMIT_NAME)
        /\ call_payload = NoneV

\* C20: a provider call whose response carries a refusal raises an error whose
\* message reports the refusal with its text, is no invalid-JSON error and is
\* no rate-limit error, whatever the refusal text.
C20_RefusalIsDistinct ==
    (Answered /\ Truthy(response.refusal)) =>
        /\ call_pc = "raised"
        /\ Contains(call_out.msg,
                    IF call_kind = "parse" THEN PARSE_REFUSED ELSE SCORING_REFUSED)
        /\ Contains(call_out.msg, response.refusal.s)
        /\ call_out.msg # RATE_LIMIT_EXCEEDED
        /\ ~Contains(call_out.msg, INVALID_JSON)
        /\ ~Contains(call_out.msg, SCORING_INVALID_JSON)
        /\ ~Contains(call_out.msg, ASYNC_SCORING_INVALID_JSON)
        /\ call_payload = NoneV

\* the text of a provider error tells of rate limiting
TellsOfRateLimit(text) ==
    \/ Contains(Lower(text), <<"4", "2", "9">>)
    \/ Contains(Lower(text), <<"t", "o", "o", " ", "m", "a", "n", "y", " ",
                               "r", "e", "q", "u", "e", "s", "t", "s">>)

\* C21: in every provider call (score_item, score_item_async, parse) a provider
\* error whose text holds "429" or "too many requests" is raised as the
\* rate-limit failure, whose message says to wait or to switch provider, and
\* not as a "request failed" error.
C21_RateLimitIsDistinct ==
    (/\ call_pc # "start"
     /\ response.t = "error"
     /\ TellsOfRateLimit(response.text)
     /\ call_kind = "parse" => ~(\A k \in 1..Len(raw_text) : raw_text[k] \in Whitespace)) =>
        /\ call_pc = "raised"
        /\ call_out.msg = RATE_LIMIT_EXCEEDED
        /\ Contains(Lower(call_out.msg), <<"w", "a", "i", "t">>)
        /\ Contains(Lower(call_out.msg), <<"s", "w", "i", "t", "c", "h">>)
        /\ ~Contains(Lower(call_out.msg),
                     <<"r", "e", "q", "u", "e", "s", "t", " ", "f", "a", "i", "l", "e", "d">>)

\* the calls of score_criteria_parallel that were started
Started == {k \in 1..Len(task) : task[k].st # "new"}

\* C22: within one call of score_criteria or score_criteria_parallel at most
\* one request is sent per criterion: the requests sent are one for each call
\* started (parallel) or one for each result plus the one that failed
\* (sequential), never more than the criteria, and once a call has failed no
\* call of a later batch is started.
C22_AtMostOneRequestPerCriterion ==
    pc # "idle" =>
        /\ requests <= Len(criteria)
        /\ task # <<>> =>
              /\ requests = Cardinality(Started)
              /\ Failed # {} =>
                    \A k \in 1..Len(task) : k > i + batch_size => task[k].st = "new"
        /\ (task = <<>> /\ pc = "seq_loop") => requests = Len(normalized_scores)
        /\ (task = <<>> /\ pc = "returned") => requests = Len(normalized_scores)
        /\ (task = <<>> /\ pc = "raised") =>
              requests \in {0, Len(normalized_scores) + 1}

\* with batches of one, the first call failed and the call of
\* score_criteria_parallel raised, one request sent for two criteria
C22_Witness ==
    /\ pc = "raised"
    /\ batch_size = 1
    /\ Len(task) = 2
    /\ task[1].st = "failed"
    /\ task[2].st = "new"
    /\ requests = 1

(***************************************************************************)
(* prompt_builder.py: build_item_prompt (lines 8-55), with the fields of   *)
(* the item that the payload of the model carries.                         *)
(***************************************************************************)
build_item_prompt(item, text) ==
    [rubric_item |-> item.name,
     maximum_score |-> item.max_score,
     transcript |-> Strip(text)]

\* the criteria lists that agree with cs in length and in criterion k
SameAt(cs, k, pool) == {other \in [1..Len(cs) -> pool] : other[k] = cs[k]}

\* C23: the result for criterion k is a function of criterion k, its position,
\* the transcript and the response to its own prompt: a run whose criteria
\* list differs in the other criteria only builds the same prompt for k and,
\* for the same response, the same result (or the same failure), and the
\* result stored for k is the one computed from criterion k and a response.
C23_ResultDependsOnOwnCriterion ==
    /\ \A k \in 1..Len(rubric_payload) :
          /\ rubric_payload[k] = PayloadItem(criteria[k], k)
          /\ task[k].st = "done" =>
                \E resp \in ParResponses :
                    task[k].res = ScoreSingleItem(rubric_payload[k], resp)
          /\ k <= Len(normalized_scores) =>
                \E resp \in ParResponses :
                    normalized_scores[k] = ScoreSingleItem(rubric_payload[k], resp)
    /\ (pc = "loop" /\ i = 0) =>
          \A k \in 1..Len(criteria) : \A other \in SameAt(criteria, k, ParCriterionInputs) :
             /\ build_item_prompt(BuildPayload(other)[k], transcript_text)
                   = build_item_prompt(rubric_payload[k], transcript_text)
             /\ \A resp \in ParResponses :
                   ScoreSingleItem(BuildPayload(other)[k], resp)
                      = ScoreSingleItem(rubric_payload[k], resp)

\* three different criteria scored in one batch, the last call finishing first
\* and the call returning
C23_Witness ==
    /\ pc = "returned"
    /\ Len(criteria) = 3
    /\ criteria[1] # criteria[2] /\ criteria[2] # criteria[3] /\ criteria[1] # criteria[3]
    /\ batch_size >= 3
    /\ overtaken
    /\ Len(normalized_scores) = 3

\* C24: at most one provider client is constructed for scoring with a provider
\* in a process, and every call, the concurrent calls of a batch included,
\* uses it.
C24_OneClientPerPair == clients <= 1

C26_FailureDoesNotWaitNorCancel ==
    /\ \A k \in 1..Len(task) : task[k].st \in {"new", "running", "done", "failed"}
    /\ (pc = "gather" /\ Failed # {}) =>
          /\ gather_exc # NoneV
          /\ ENABLED GatherRaise
          /\ ~ENABLED GatherReturn
    /\ Failed # {} =>
          /\ pc \in {"gather", "raised"}
          /\ ~ENABLED DispatchBatch
          /\ \A k \in Running : ENABLED Complete(k)
          /\ \A k \in 1..Len(task) : k > i + batch_size => task[k].st = "new"

\* the call has raised while another call of the same batch is still running,
\* a later batch not started
C26_Witness ==
    /\ pc = "raised"
    /\ Failed # {}
    /\ Running # {}
    /\ \E k \in 1..Len(task) : task[k].st = "new"

(***************************************************************************)
(* The evaluation endpoints: POST /api/evaluations (create_evaluation) and *)
(* POST /api/evaluations/with-rubric (create_evaluation_with_saved_rubric) *)
(* around score_criteria_parallel, with the database session of get_db.    *)
(* A row is modelled by the name of its table.  The session is made with   *)
(* autocommit=False: a flushed row is pending until db.commit(), and       *)
(* db.close() in the finally of get_db discards every pending row.  The    *)
(* Assignment row of get_or_create_assignment is flushed like the User row *)
(* of get_or_create_user and is covered by it.                             *)
(***************************************************************************)
Endpoints == {"evaluations", "with-rubric"}

\* mutant: closing the session commits the pending rows
CloseSession_Commits(done, pending) == done \cup pending

\* database.py lines 19-21: db.close() without a commit rolls the pending rows back
CloseSession(done, pending) == done

\* rubric_ops.py get_or_create_user: a User row is added and flushed
GraderRows == IF grader_given THEN {"User"} ELSE {}

\* rubric_ops.py persist_rubric: the rubric parsed in this request is flushed
RubricRows ==
    IF endpoint = "evaluations" THEN {"Rubric", "RubricItem", "RubricLevel"} ELSE {}

\* what the handler raises before it scores, "none" when it goes on to score
EarlyError ==
    IF Strip(transcript_text) = <<>>
    THEN [status |-> 400, detail |-> "Transcript text is required."]
    ELSE IF criteria = <<>> /\ endpoint = "with-rubric"
    THEN [status |-> 400, detail |-> "Rubric has no criteria"]
    ELSE IF criteria = <<>>
    THEN [status |-> 503, detail |-> "Rubric parsing failed"]
    ELSE [status |-> 0, detail |-> ""]

InitEndpoint ==
    /\ criteria \in SeqsUpTo(ParCriterionInputs, MaxEntryCriteria)
    /\ transcript_text \in Transcripts
    /\ batch_size = 10
    /\ rubric_payload = <<>>
    /\ pc = "idle"
    /\ i = 0
    /\ task = <<>>
    /\ gather_exc = NoneV
    /\ normalized_scores = <<>>
    /\ batch_log = <<>>
    /\ report = NoneV
    /\ error = "none"
    /\ overtaken = FALSE
    /\ RubricIdle
    /\ endpoint \in Endpoints
    /\ grader_given \in BOOLEAN
    /\ ep_pc = "start"
    /\ session = {}
    /\ committed = {}
    /\ status = 0
    /\ detail = ""

\* evaluations.py lines 42-78 and 135-193: the checks, the rows flushed before
\* scoring, and the call of score_criteria_parallel
EndpointEnter ==
    /\ ep_pc = "start"
    /\ IF EarlyError.status # 0
       THEN /\ ep_pc' = "done"
            /\ status' = EarlyError.status
            /\ detail' = EarlyError.detail
            /\ session' = {}
            /\ committed' = CloseSession(committed, IF EarlyError.status = 503
                                                    THEN GraderRows ELSE {})
            /\ UNCHANGED pc
       ELSE /\ ep_pc' = "scoring"
            /\ session' = GraderRows \cup RubricRows
            /\ pc' = "start"
            /\ UNCHANGED <<status, detail, committed>>
    /\ UNCHANGED <<criteria, transcript_text, batch_size, rubric_payload, i, task,
                   gather_exc, normalized_scores, batch_log, report, error, overtaken>>
    /\ UNCHANGED <<rubric_vars, json_vars, client_vars, requests, clients>>
    /\ UNCHANGED <<endpoint, grader_given>>

\* evaluations.py lines 78-79 and 193-194: except ScoringError answers 503; any
\* other exception leaves the handler and is answered 500; get_db closes the session
EndpointScoringFailed ==
    /\ ep_pc = "scoring"
    /\ pc = "raised"
    /\ ep_pc' = "done"
    /\ status' = IF error = "ScoringError" THEN 503 ELSE 500
    /\ detail' = IF error = "ScoringError" THEN "Scoring failed"
                                           ELSE "Internal Server Error"
    /\ committed' = CloseSession(committed, session)
    /\ session' = {}
    /\ UNCHANGED <<scoring_vars, rubric_vars, json_vars, client_vars, requests, clients>>
    /\ UNCHANGED <<endpoint, grader_given>>

\* evaluations.py lines 81-113 and 196-241: the Evaluation and its CriterionScore
\* rows are added and db.commit() makes every pending row durable
EndpointPersist ==
    /\ ep_pc = "scoring"
    /\ pc = "returned"
    /\ ep_pc' = "done"
    /\ status' = 200
    /\ committed' = committed \cup session \cup {"Evaluation", "CriterionScore"}
    /\ session' = {}
    /\ UNCHANGED detail
    /\ UNCHANGED <<scoring_vars, rubric_vars, json_vars, client_vars, requests, clients>>
    /\ UNCHANGED <<endpoint, grader_given>>

\* batch_size is the literal 10: range() never has a zero step here
NextEndpoint ==
    \/ EndpointEnter
    \/ Enter
    \/ DispatchBatch
    \/ \E k \in 1..Len(task) : Complete(k)
    \/ GatherReturn
    \/ GatherRaise
    \/ Finish
    \/ EndpointScoringFailed
    \/ EndpointPersist

SpecEndpoint == InitEndpoint /\ [][NextEndpoint]_vars

\* C27: when score_criteria_parallel fails with ScoringError inside one of the
\* two endpoints, the request is answered 503 "Scoring failed" and nothing of it
\* is committed: neither Evaluation nor CriterionScore rows, nor the User,
\* Rubric, RubricItem rows flushed earlier; rows are committed only after the
\* scoring call returned a report.
C27_ScoringFailureCommitsNothing ==
    /\ (ep_pc = "done" /\ pc = "raised" /\ error = "ScoringError") =>
           /\ status = 503
           /\ detail = "Scoring failed"
           /\ committed = {}
           /\ session = {}
    /\ committed # {} => (pc = "returned" /\ status = 200)

C27_Witness ==
    /\ endpoint = "evaluations"
    /\ grader_given
    /\ ep_pc = "done"
    /\ pc = "raised"
    /\ error = "ScoringError"
    /\ status = 503
    /\ Len(criteria) = 2
    /\ Done # {}

(***************************************************************************)
(* score_criteria as a function of the response given to each criterion,   *)
(* to compare the two scoring paths on the same responses.                 *)
(***************************************************************************)
RECURSIVE SeqResults(_, _, _)
\* lines 210-233: the items are scored in order; the first exception ends the loop
SeqResults(payload, resps, acc) ==
    IF Len(acc) = Len(payload) THEN [t |-> "results", v |-> acc]
    ELSE LET r == ScoreSingleItem(payload[Len(acc) + 1], resps[Len(acc) + 1])
         IN  IF r.t = "raise" THEN r ELSE SeqResults(payload, resps, Append(acc, r))

\* lines 184-276: what score_criteria returns or raises
score_criteria(cs, text, resps) ==
    IF PreconditionError(cs, text) # "none" THEN Raise(PreconditionError(cs, text))
    ELSE LET s == SeqResults(BuildPayload(cs), resps, <<>>)
         IN  IF s.t = "raise" THEN s ELSE Aggregate(s.v)

\* the call in this state took the parallel path and started its calls
TookParallel == Len(task) > 0

\* resps gives each criterion a response the call of this state can have received
Received(resps) ==
    /\ \A k \in 1..Len(task) :
          task[k].st \in {"done", "failed"} =>
              task[k].res = ScoreSingleItem(rubric_payload[k], resps[k])
    /\ ~TookParallel =>
          /\ \A k \in 1..Len(normalized_scores) :
                normalized_scores[k] = ScoreSingleItem(rubric_payload[k], resps[k])
          /\ (pc = "raised" /\ i < Len(rubric_payload)) =>
                ScoreSingleItem(rubric_payload[i + 1], resps[i + 1]) = Raise(error)

\* the outcome of the call of this state is the outcome of score_criteria on resps
SameOutcome(resps) ==
    LET s == score_criteria(criteria, transcript_text, resps)
    IN  /\ pc = "returned" => s = report
        /\ pc = "raised" => s.t = "raise"

\* C28: on the same criteria, transcript and response per criterion, a call of
\* score_criteria_parallel with batch_size >= 1, whatever the order its calls
\* completed in, and a call of score_criteria return the same report, and when
\* one of them raises the other raises: each ends as the function
\* score_criteria of the responses does.
C28_ParallelEqualsSequential ==
    (pc \in {"returned", "raised"} /\ (TookParallel => batch_size >= 1)) =>
        \A resps \in [1..Len(criteria) -> SeqResponses] :
            Received(resps) => SameOutcome(resps)

\* two criteria scored by one parallel batch of two whose second call completed
\* first, both results in the report
C28_Witness ==
    /\ pc = "returned"
    /\ TookParallel
    /\ batch_size = 2
    /\ overtaken
    /\ Len(report.criterion_scores) = 2
    /\ report = score_criteria(criteria, transcript_text,
                               [k \in 1..2 |-> IF k = 1 THEN Answer(7000, Str(<<"Good rapport">>))
                                               ELSE Dict([evaluation |-> Dict([score |-> Num(600)])])])

(***************************************************************************)
(* Termination of score_criteria_parallel.  The event loop runs every step *)
(* of the coroutine that is ready, and every provider call that was        *)
(* started completes, by a response or by an exception.                    *)
(***************************************************************************)
MaxLiveCriteria == 2

\* the guard of Finish: the loop is over
FinishReady == pc = "loop" /\ batch_size # 0 /\ ~RangeHasNext

Fairness ==
    /\ WF_vars(Enter)
    /\ WF_vars(RangeError)
    /\ WF_vars(DispatchBatch)
    /\ \A k \in 1..MaxLiveCriteria : WF_vars(k <= Len(task) /\ Complete(k))
    /\ WF_vars(GatherReturn)
    /\ WF_vars(GatherRaise)
    \* weak fairness of Finish, its enabling condition written out
    /\ []<>(~FinishReady) \/ []<><<Finish>>_vars

InitLive ==
    /\ InitScoring(ParCriterionInputs, MaxLiveCriteria, 0..MaxLiveCriteria)
    /\ RubricIdle
    /\ EndpointIdle

SpecLive == InitLive /\ [][Next]_vars /\ Fairness

Terminated == pc \in {"returned", "raised"}

\* C29: when every provider call eventually completes, a call of
\* score_criteria_parallel with batch_size >= 1 eventually returns a report or
\* raises an error, and at no time has it sent more requests than there are
\* criteria.
C29_ParallelTerminates ==
    /\ (batch_size >= 1) ~> Terminated
    /\ [](batch_size >= 1 => requests <= Len(criteria))

\* every criterion scored in a batch of its own, one request each
C29_Witness ==
    /\ pc = "returned"
    /\ batch_size = 1
    /\ Len(criteria) = MaxLiveCriteria
    /\ requests = Len(criteria)
    /\ Len(batch_log) = Len(criteria)

\* C30: for every integer batch_size, zero and negative values included, a call
\* of score_criteria_parallel that returns gives a report with one result per
\* input criterion; otherwise it raises.
C30_NoCriterionLeftOut ==
    pc = "returned" => Len(report.criterion_scores) = Len(criteria)

====
